---- MODULE Spec2Model ----
(***************************************************************************)
(* State-machine model of the thinking-support tool server                 *)
(* (src/src/thinking_support).  Each tool family keeps a private store of  *)
(* entities keyed by a generated identifier; every public coroutine of a   *)
(* tool is one action.  Python's None is the string "None"; a formatted    *)
(* text that embeds a value is a record holding that value; datetime.now() *)
(* is a read of a non-decreasing clock; uuid4 yields an identifier that is *)
(* not yet a key of the store.  Each tool family has its own               *)
(* specification (SpecWhy, SpecDialectical, ...): the stores are disjoint  *)
(* and no call of one tool touches the store of another.                   *)
(***************************************************************************)
EXTENDS Integers, Sequences, FiniteSets, TLC

VARIABLES
    analyses,   \* WhyAnalysis.analyses: analysis id -> analysis dict
    processes,  \* DialecticalThinking.processes: process id -> DialecticalProcess
    now,        \* the last value datetime.now() returned
    result,     \* what the last call returned (or raised)
    script,     \* the caller of the end-to-end scenarios: its position and inputs
    plans,      \* StepwiseThinking.plans: plan id -> StepwisePlan
    thought_history,  \* SequentialThinking.thought_history: list of ThoughtData
    branches,   \* SequentialThinking.branches: branch id -> list of ThoughtData,
                \* a list of [id, thoughts] in the order the keys were inserted
    sessions,   \* SCAMPER.sessions: session id -> SCAMPERSession, a list of
                \* sessions in the order the keys were inserted
    mece_analyses, \* MECE.analyses: analysis id -> MECEAnalysis
    claim_analyses, \* CriticalThinking.analyses: analysis id -> ClaimAnalysis
    bias_analyses  \* CriticalThinking.bias_analyses: analysis id -> BiasAnalysis

vars == <<analyses, processes, now, result, script, plans, thought_history, branches, sessions, mece_analyses, claim_analyses, bias_analyses>>

(* ------------------------------ bounds -------------------------------- *)
\* most why entries the model lets the store hold, over all analyses
MaxWhys == 6
\* most entries the model lets the thought history hold
MaxThoughts == 3

None == "None"
\* None where a datetime is expected
NoTime == 0 - 1
\* None where a DialecticalPosition is expected
NoPosition == [type |-> None, content |-> None, evidence |-> <<>>, created_at |-> NoTime]
Texts == {"A", "B"}
Topics == {"X"}
Backgrounds == {None, "C"}
\* evidence lists; <<>> is both None and the empty list ("evidence or []")
Evidences == {<<>>, <<"E">>}
Reasonings == {None, "R"}
Problems == {"P"}
Contexts == {None}
\* identifiers uuid4 can produce, per store, and one that is never a key
AnalysisIds == {"w1"}
ProcessIds == {"p1"}
PlanIds == {"s1"}
UnknownIds == {"zz"}
\* the problem text of create_plan, as the set of keywords it contains
StepwiseProblems == {{"study", "issue"}}
\* step numbers of execute_step: every number of a plan and one on each side
StepArgs == 0..7
\* level arguments of add_answer: every index of the longest list, the
\* first one beyond it, and every negative index down to one too far
LevelArgs == (0 - MaxWhys - 1)..MaxWhys
\* the values datetime.now() can return: two reads see the same instant or
\* the second a later one
Times == {0, 1}

(* --------------------------- result values ---------------------------- *)
Ok(m) == [status |-> "ok", msg |-> m]
Err(m) == [status |-> "error", msg |-> m]
Raised(m) == [status |-> "raised", msg |-> m]

Put(store, id, v) == [k \in DOMAIN store \cup {id} |-> IF k = id THEN v ELSE store[k]]

(* ============================ 5-Why analysis ========================== *)
\* the stores a WhyAnalysis call never touches
notWhy == <<processes, plans, thought_history, branches, sessions, mece_analyses, claim_analyses, bias_analyses>>

first_why(problem, t) ==
    [level |-> 0, question |-> [why |-> "happened", about |-> problem],
     answer |-> None, timestamp |-> t]

next_why(level, answer, t) ==
    [level |-> level + 1, question |-> [why |-> "is", about |-> answer],
     answer |-> None, timestamp |-> t]

\* list[level] of Python, as a 1-based index; 0 when it raises IndexError
PyIndex(level, n) ==
    IF level >= 0
    THEN (IF level < n THEN level + 1 ELSE 0)
    ELSE (IF n + level >= 0 THEN n + level + 1 ELSE 0)

RECURSIVE SumWhys(_)
SumWhys(ids) ==
    IF ids = {} THEN 0
    ELSE LET k == CHOOSE x \in ids : TRUE
         IN  Len(analyses[k].whys) + SumWhys(ids \ {k})

\* number of why entries in the store
TotalWhys == SumWhys(DOMAIN analyses)

\* lines 25-40; the id is the first eight characters of a uuid4, and line
\* 27 assigns the new dict to that key without looking it up
start_analysis(id, problem, context) ==
    /\ TotalWhys < MaxWhys
    /\ \E t1 \in Times : \E t2 \in Times :
          /\ now <= t1 /\ t1 <= t2
          /\ analyses' = Put(analyses, id,
                [id |-> id, problem |-> problem, context |-> context,
                 whys |-> <<first_why(problem, t2)>>,
                 created_at |-> t1, status |-> "active"])
          /\ now' = t2
    /\ result' = Ok("analysis_started")
    /\ UNCHANGED notWhy

\* line 74: the entry list[level] already holds an answer
AlreadyAnsweredSkipped(analysis, level) == FALSE

AlreadyAnswered(analysis, level) ==
    analysis.whys[PyIndex(level, Len(analysis.whys))].answer # None

\* the next question is appended but the answer is not stored
AnsweredNotStored(analysis, level, answer, t1, t2) ==
    IF level < 4
    THEN [analysis EXCEPT !.whys = Append(analysis.whys, next_why(level, answer, t2))]
    ELSE [analysis EXCEPT !.status = "completed"]

\* the analysis after add_answer's writes, reading the clock at t1 and t2
Answered(analysis, level, answer, t1, t2) ==
    LET i == PyIndex(level, Len(analysis.whys))
        rec == [analysis.whys EXCEPT ![i].answer = answer, ![i].timestamp = t1]
    IN  IF level < 4
        THEN [analysis EXCEPT !.whys = Append(rec, next_why(level, answer, t2))]
        ELSE [analysis EXCEPT !.whys = rec, !.status = "completed"]

add_answer(id, level, answer) ==
    IF id \notin DOMAIN analyses
    THEN /\ result' = Err("analysis_not_found")
         /\ UNCHANGED <<analyses, now, notWhy>>
    ELSE LET analysis == analyses[id]
             n == Len(analysis.whys)
         IN  IF level >= n
             THEN /\ result' = Err("no_question")
                  /\ UNCHANGED <<analyses, now, notWhy>>
             ELSE IF PyIndex(level, n) = 0
             THEN /\ result' = Raised("IndexError")
                  /\ UNCHANGED <<analyses, now, notWhy>>
             ELSE IF AlreadyAnswered(analysis, level)
             THEN /\ result' = Err("already_answered")
                  /\ UNCHANGED <<analyses, now, notWhy>>
             ELSE /\ level < 4 => TotalWhys < MaxWhys
                  /\ \E t1 \in Times : \E t2 \in Times :
                        /\ now <= t1 /\ t1 <= t2
                        /\ level >= 4 => t2 = t1
                        /\ analyses' = [analyses EXCEPT
                               ![id] = Answered(analysis, level, answer, t1, t2)]
                        /\ now' = t2
                  /\ result' = Ok(IF level < 4 THEN "next_question" ELSE "analysis_completed")
                  /\ UNCHANGED notWhy

(* ========================= dialectical process ======================== *)
\* the stores a DialecticalThinking call never touches
notDialectical == <<analyses, plans, thought_history, branches, sessions, mece_analyses, claim_analyses, bias_analyses>>

\* DialecticalPosition(type, content, evidence), created at t
DialecticalPosition(type, content, evidence, t) ==
    [type |-> type, content |-> content, evidence |-> evidence, created_at |-> t]

\* DialecticalProcess(topic, context) with identifier id, created at t
DialecticalProcess(id, topic, context, t) ==
    [id |-> id, topic |-> topic, context |-> context,
     thesis |-> NoPosition, antithesis |-> NoPosition, synthesis |-> NoPosition,
     created_at |-> t, completed_at |-> NoTime]

start_dialectical_process(id, topic, context) ==
    /\ id \notin DOMAIN processes
    /\ \E t \in Times :
          /\ now <= t
          /\ processes' = Put(processes, id, DialecticalProcess(id, topic, context, t))
          /\ now' = t
    /\ result' = Ok("process_started")
    /\ UNCHANGED notDialectical

set_thesis(id, thesis, evidence) ==
    IF id \notin DOMAIN processes
    THEN /\ result' = Err("process_not_found")
         /\ UNCHANGED <<processes, now, notDialectical>>
    ELSE /\ \E t \in Times :
               /\ now <= t
               /\ processes' = [processes EXCEPT
                      ![id].thesis = DialecticalPosition("thesis", thesis, evidence, t)]
               /\ now' = t
         /\ result' = Ok("thesis_set")
         /\ UNCHANGED notDialectical

\* set_antithesis never asks for the thesis
ThesisMissingSkipped(process) == FALSE

\* line 86: not process.thesis
ThesisMissing(process) == process.thesis = NoPosition

\* the antithesis is stored and the process is stamped as completed
WithAntithesisStamped(process, antithesis, evidence, t) ==
    [process EXCEPT !.antithesis = DialecticalPosition("antithesis", antithesis, evidence, t),
                    !.completed_at = t]

\* a new antithesis reopens the process: synthesis and completion are cleared
WithAntithesisReopening(process, antithesis, evidence, t) ==
    [process EXCEPT !.antithesis = DialecticalPosition("antithesis", antithesis, evidence, t),
                    !.synthesis = NoPosition, !.completed_at = NoTime]

\* line 89: the process after set_antithesis stored its position
WithAntithesis(process, antithesis, evidence, t) ==
    [process EXCEPT !.antithesis = DialecticalPosition("antithesis", antithesis, evidence, t)]

set_antithesis(id, antithesis, evidence) ==
    IF id \notin DOMAIN processes
    THEN /\ result' = Err("process_not_found")
         /\ UNCHANGED <<processes, now, notDialectical>>
    ELSE IF ThesisMissing(processes[id])
    THEN /\ result' = Err("set_thesis_first")
         /\ UNCHANGED <<processes, now, notDialectical>>
    ELSE /\ \E t \in Times :
               /\ now <= t
               /\ processes' = [processes EXCEPT
                      ![id] = WithAntithesis(processes[id], antithesis, evidence, t)]
               /\ now' = t
         /\ result' = Ok("antithesis_set")
         /\ UNCHANGED notDialectical

\* the two tests joined by "and" instead of "or"
SynthesisBlockedBothUnset(process) ==
    process.thesis = NoPosition /\ process.antithesis = NoPosition

\* line 113: not process.thesis or not process.antithesis
SynthesisBlocked(process) ==
    process.thesis = NoPosition \/ process.antithesis = NoPosition

\* the synthesis is stored but the completion time is not
WithSynthesisNotStamped(process, synthesis, t1, t2) ==
    [process EXCEPT !.synthesis = DialecticalPosition("synthesis", synthesis, <<>>, t1)]

\* lines 116-117: the process after create_synthesis stored its position
WithSynthesis(process, synthesis, t1, t2) ==
    [process EXCEPT !.synthesis = DialecticalPosition("synthesis", synthesis, <<>>, t1),
                    !.completed_at = t2]

create_synthesis(id, synthesis, reasoning) ==
    IF id \notin DOMAIN processes
    THEN /\ result' = Err("process_not_found")
         /\ UNCHANGED <<processes, now, notDialectical>>
    ELSE IF SynthesisBlocked(processes[id])
    THEN /\ result' = Err("set_thesis_and_antithesis")
         /\ UNCHANGED <<processes, now, notDialectical>>
    ELSE /\ \E t1 \in Times : \E t2 \in Times :
               /\ now <= t1 /\ t1 <= t2
               /\ processes' = [processes EXCEPT
                      ![id] = WithSynthesis(processes[id], synthesis, t1, t2)]
               /\ now' = t2
         /\ result' = Ok("process_completed")
         /\ UNCHANGED notDialectical

\* the content a position shows in get_process, None when unset
Shown(position) == IF position = NoPosition THEN None ELSE position.content

\* the hint goes from the thesis straight to the synthesis
NextStepSkippingAntithesis(process) ==
    IF process.thesis = NoPosition THEN "dialectical_set_thesis"
    ELSE IF process.synthesis = NoPosition THEN "dialectical_create_synthesis"
    ELSE "completed"

\* lines 201-208: the next-step hint of get_process
NextStep(process) ==
    IF process.thesis = NoPosition THEN "dialectical_set_thesis"
    ELSE IF process.antithesis = NoPosition THEN "dialectical_set_antithesis"
    ELSE IF process.synthesis = NoPosition THEN "dialectical_create_synthesis"
    ELSE "completed"

get_process(id) ==
    /\ IF id \notin DOMAIN processes
       THEN result' = Err("process_not_found")
       ELSE LET process == processes[id]
            IN  result' = [status |-> "ok", msg |-> "process_status",
                           completed_at |-> process.completed_at,
                           thesis |-> Shown(process.thesis),
                           antithesis |-> Shown(process.antithesis),
                           synthesis |-> Shown(process.synthesis),
                           next |-> NextStep(process)]
    /\ UNCHANGED <<processes, now, notDialectical>>

(* ============================ stepwise plan =========================== *)
\* the stores a StepwiseThinking call never touches
notStepwise == <<analyses, processes, thought_history, branches, sessions, mece_analyses, claim_analyses, bias_analyses>>

\* a new step starts in progress
StepwiseStepInProgress(number, description, expected_outcome) ==
    [number |-> number, description |-> description,
     expected_outcome |-> expected_outcome,
     status |-> "in_progress", result |-> None, completed_at |-> NoTime]

\* lines 11-17: a new step is pending, without result or completion time
StepwiseStep(number, description, expected_outcome) ==
    [number |-> number, description |-> description,
     expected_outcome |-> expected_outcome,
     status |-> "pending", result |-> None, completed_at |-> NoTime]

\* lines 133-175: the four step tables, their texts in English
_create_programming_steps ==
    << StepwiseStep(1, "clarify and analyse requirements", "functional requirements and constraints"),
       StepwiseStep(2, "consider design and architecture", "system structure and implementation policy"),
       StepwiseStep(3, "prepare development environment", "tools and libraries set up"),
       StepwiseStep(4, "implement core functions", "most important function implemented"),
       StepwiseStep(5, "test and debug", "behaviour confirmed and problems fixed"),
       StepwiseStep(6, "polish and optimise", "performance improved and code tidied") >>

_create_learning_steps ==
    << StepwiseStep(1, "set learning goals", "clear measurable learning goals"),
       StepwiseStep(2, "grasp current knowledge level", "known and missing parts identified"),
       StepwiseStep(3, "make a learning plan", "efficient order and schedule"),
       StepwiseStep(4, "acquire basic knowledge", "basic concepts understood"),
       StepwiseStep(5, "practical exercise", "knowledge applied in practice"),
       StepwiseStep(6, "confirm and consolidate understanding", "review of what was learned") >>

_create_problem_solving_steps ==
    << StepwiseStep(1, "clarify the problem", "essence and scope of the problem"),
       StepwiseStep(2, "gather information and analyse", "related information and current state"),
       StepwiseStep(3, "identify the cause", "root cause analysed"),
       StepwiseStep(4, "consider solutions", "several solutions drafted and rated"),
       StepwiseStep(5, "choose and execute the best solution", "most fitting solution executed"),
       StepwiseStep(6, "evaluate and improve the result", "result rated and improved") >>

_create_generic_steps ==
    << StepwiseStep(1, "set the goal", "goal made clear"),
       StepwiseStep(2, "grasp the current state", "situation and issues sorted"),
       StepwiseStep(3, "draft the plan", "concrete plan towards the goal"),
       StepwiseStep(4, "execute", "actions taken according to plan"),
       StepwiseStep(5, "check and adjust", "progress checked and adjusted"),
       StepwiseStep(6, "finish and look back", "goal confirmed and experience sorted") >>

\* lines 120-131: the table is chosen by the first keyword group the
\* problem text contains; a problem text is the set of keywords it contains
_analyze_and_create_steps(problem, context) ==
    IF "program" \in problem \/ "code" \in problem \/ "development" \in problem
    THEN _create_programming_steps
    ELSE IF "learning" \in problem \/ "study" \in problem
    THEN _create_learning_steps
    ELSE IF "problem solving" \in problem \/ "issue" \in problem
    THEN _create_problem_solving_steps
    ELSE _create_generic_steps

\* lines 23-29 and 44-45: the plan create_plan stores
StepwisePlan(id, problem, context, steps, t) ==
    [id |-> id, problem |-> problem, context |-> context, steps |-> steps,
     created_at |-> t, completed_at |-> NoTime]

create_plan(id, problem, context) ==
    /\ id \notin DOMAIN plans
    /\ \E t \in Times :
          /\ now <= t
          /\ plans' = Put(plans, id,
                 StepwisePlan(id, problem, context,
                              _analyze_and_create_steps(problem, context), t))
          /\ now' = t
    /\ result' = [status |-> "ok", msg |-> "plan_created", id |-> id]
    /\ UNCHANGED notStepwise

\* the step tables are shared by the plans: the step with the number is
\* completed in every plan of the store
execute_stepEveryPlan(id, step_number, text) ==
    /\ id \in DOMAIN plans
    /\ plans' = [k \in DOMAIN plans |->
          [plans[k] EXCEPT !.steps = [i \in DOMAIN plans[k].steps |->
              IF plans[k].steps[i].number = step_number
              THEN [plans[k].steps[i] EXCEPT
                       !.result = text, !.status = "completed",
                       !.completed_at = now]
              ELSE plans[k].steps[i]]]]
    /\ result' = Ok("step_completed")
    /\ UNCHANGED <<now, notStepwise>>

\* the number is used as a Python list index: 0 is the last step
target_stepByIndex(steps, step_number) ==
    IF step_number \in 1..Len(steps) THEN step_number
    ELSE IF step_number = 0 THEN Len(steps)
    ELSE 0

\* lines 73-77: the index of the first step with the number, 0 when none
target_step(steps, step_number) ==
    IF \E i \in 1..Len(steps) : steps[i].number = step_number
    THEN CHOOSE i \in 1..Len(steps) :
            /\ steps[i].number = step_number
            /\ \A j \in 1..(i - 1) : steps[j].number # step_number
    ELSE 0

\* the step is marked completed but the result is not stored
ExecutedWithoutResult(step, text, t) ==
    [step EXCEPT !.status = "completed", !.completed_at = t]

\* a completed step keeps its first result
ExecutedOnce(step, text, t) ==
    IF step.status = "completed" THEN step
    ELSE [step EXCEPT !.result = text, !.status = "completed", !.completed_at = t]

\* lines 83-85: the step after execute_step recorded its result
Executed(step, text, t) ==
    [step EXCEPT !.result = text, !.status = "completed", !.completed_at = t]

\* line 88: how many steps are completed
completed_steps(steps) ==
    Cardinality({i \in 1..Len(steps) : steps[i].status = "completed"})

\* only the last step is looked at
AllCompletedLastOnly(steps) == steps[Len(steps)].status = "completed"

\* line 93: completed_steps == total_steps
AllCompleted(steps) == completed_steps(steps) = Len(steps)

\* the step after the last completed one, 0 when that is the last step
next_stepAfterLastCompleted(steps) ==
    LET done == {i \in 1..Len(steps) : steps[i].status = "completed"}
        last == CHOOSE i \in done : \A j \in done : j <= i
    IN IF done = {} THEN 1
       ELSE IF last = Len(steps) THEN 0 ELSE last + 1

\* lines 103-108: the first pending step, 0 when none
next_step(steps) ==
    IF \E i \in 1..Len(steps) : steps[i].status = "pending"
    THEN CHOOSE i \in 1..Len(steps) :
            /\ steps[i].status = "pending"
            /\ \A j \in 1..(i - 1) : steps[j].status # "pending"
    ELSE 0

\* lines 95-116: what the response shows
StepResponse(steps, step_number, text) ==
    [status |-> "ok", msg |-> "step_completed", step_number |-> step_number,
     result |-> text, completed_steps |-> completed_steps(steps),
     total_steps |-> Len(steps),
     summary |-> AllCompleted(steps),
     next |-> IF AllCompleted(steps) THEN 0 ELSE next_step(steps)]

execute_step(id, step_number, text) ==
    IF id \notin DOMAIN plans
    THEN /\ result' = Err("plan_not_found")
         /\ UNCHANGED <<plans, now, notStepwise>>
    ELSE IF target_step(plans[id].steps, step_number) = 0
    THEN /\ result' = Err("step_not_found")
         /\ UNCHANGED <<plans, now, notStepwise>>
    ELSE LET plan == plans[id]
             i == target_step(plan.steps, step_number)
         IN  \E t1 \in Times : \E t2 \in Times :
               LET steps == [plan.steps EXCEPT ![i] = Executed(plan.steps[i], text, t1)]
               IN  /\ now <= t1 /\ t1 <= t2
                   /\ IF AllCompleted(steps)
                      THEN /\ plans' = [plans EXCEPT ![id] =
                                  [plan EXCEPT !.steps = steps, !.completed_at = t2]]
                           /\ now' = t2
                      ELSE /\ t2 = t1
                           /\ plans' = [plans EXCEPT ![id] = [plan EXCEPT !.steps = steps]]
                           /\ now' = t1
                   /\ result' = StepResponse(steps, step_number, text)
                   /\ UNCHANGED notStepwise

(* ========================== sequential thinking ======================= *)
\* what a SequentialThinking call never touches
notSequential == <<analyses, processes, plans, now, sessions, mece_analyses, claim_analyses, bias_analyses>>

\* the Python values an argument of process_thought can hold; a key that
\* is missing reads as None (input_data.get)
PyNone == [t |-> "none", n |-> 0, s |-> ""]
PyInt(n) == [t |-> "int", n |-> n, s |-> ""]
PyStr(s) == [t |-> "str", n |-> 0, s |-> s]
\* bool is a subclass of int: True is 1 and False is 0
PyBool(b) == [t |-> "bool", n |-> IF b THEN 1 ELSE 0, s |-> ""]
\* a list of one element: truthy and not hashable
PyList == [t |-> "list", n |-> 1, s |-> ""]

\* Python's truth value of a value
Truthy(v) ==
    IF v.t = "none" THEN FALSE
    ELSE IF v.t = "str" THEN v.s # ""
    ELSE v.n # 0

\* isinstance(v, str), isinstance(v, int), isinstance(v, bool)
IsStr(v) == v.t = "str"
IsInt(v) == v.t \in {"int", "bool"}
IsBool(v) == v.t = "bool"
\* whether the value can be a dict key
Hashable(v) == v.t # "list"

\* lines 35-45: the message of the ValueError validate_thought_data raises,
\* None when the input passes
validate_thought_data(input_data) ==
    IF ~Truthy(input_data.thought) \/ ~IsStr(input_data.thought)
    THEN "Invalid thought: must be a string"
    ELSE IF ~Truthy(input_data.thought_number) \/ ~IsInt(input_data.thought_number)
    THEN "Invalid thought_number: must be a number"
    ELSE IF ~Truthy(input_data.total_thoughts) \/ ~IsInt(input_data.total_thoughts)
    THEN "Invalid total_thoughts: must be a number"
    ELSE IF ~IsBool(input_data.next_thought_needed)
    THEN "Invalid next_thought_needed: must be a boolean"
    ELSE None

\* lines 47-57: the ThoughtData built from a valid input
ThoughtData(input_data) ==
    [thought |-> input_data.thought,
     thought_number |-> input_data.thought_number,
     total_thoughts |-> input_data.total_thoughts,
     next_thought_needed |-> input_data.next_thought_needed,
     is_revision |-> input_data.is_revision,
     revises_thought |-> input_data.revises_thought,
     branch_from_thought |-> input_data.branch_from_thought,
     branch_id |-> input_data.branch_id,
     needs_more_thoughts |-> input_data.needs_more_thoughts]

\* total_thoughts is kept as supplied
AdjustedKeepingTotal(validated_input) == validated_input

\* lines 93-94: total_thoughts is raised to a larger thought_number
Adjusted(validated_input) ==
    IF validated_input.thought_number.n > validated_input.total_thoughts.n
    THEN [validated_input EXCEPT !.total_thoughts = validated_input.thought_number]
    ELSE validated_input

\* a revision takes the place of the thought it revises
AppendedReplacingRevised(history, validated_input) ==
    IF /\ Truthy(validated_input.is_revision)
       /\ validated_input.revises_thought.n \in 1..Len(history)
    THEN [history EXCEPT ![validated_input.revises_thought.n] = validated_input]
    ELSE Append(history, validated_input)

\* line 97: the history after the append
Appended(history, validated_input) == Append(history, validated_input)

\* line 100: branch_from_thought and branch_id
Branching(validated_input) ==
    Truthy(validated_input.branch_from_thought) /\ Truthy(validated_input.branch_id)

\* the keys of the branch dict, in insertion order
BranchKeys(map) == [i \in 1..Len(map) |-> map[i].id]
HasBranch(map, key) == \E i \in 1..Len(map) : map[i].id = key

\* lines 101-103: the branch dict after the entry joined the list of its id
Branched(map, validated_input) ==
    IF HasBranch(map, validated_input.branch_id)
    THEN [i \in 1..Len(map) |->
            IF map[i].id = validated_input.branch_id
            THEN [map[i] EXCEPT !.thoughts = Append(@, validated_input)]
            ELSE map[i]]
    ELSE Append(map, [id |-> validated_input.branch_id,
                      thoughts |-> <<validated_input>>])

\* lines 121-127: the result of a call that raised
failed(error) == [status |-> "failed", error |-> error]

\* lines 111-118: the result of a call that went through
success(validated_input, history, map) ==
    [status |-> "success",
     thought_number |-> validated_input.thought_number,
     total_thoughts |-> validated_input.total_thoughts,
     next_thought_needed |-> validated_input.next_thought_needed,
     branches |-> BranchKeys(map),
     thought_history_length |-> Len(history)]

\* lines 86-128; the log written to stderr (105-108) changes no state
process_thought(input_data) ==
    IF validate_thought_data(input_data) # None
    THEN /\ result' = failed(validate_thought_data(input_data))
         /\ UNCHANGED <<thought_history, branches, notSequential>>
    ELSE LET validated_input == Adjusted(ThoughtData(input_data))
         IN  /\ Len(thought_history) < MaxThoughts
             /\ thought_history' = Appended(thought_history, validated_input)
             /\ IF ~Branching(validated_input)
                THEN /\ branches' = branches
                     /\ result' = success(validated_input, thought_history', branches')
                ELSE IF ~Hashable(validated_input.branch_id)
                THEN \* line 101 raises TypeError after the append of line 97
                     /\ branches' = branches
                     /\ result' = failed("unhashable type: 'list'")
                ELSE /\ branches' = Branched(branches, validated_input)
                     /\ result' = success(validated_input, thought_history', branches')
             /\ UNCHANGED notSequential

\* lines 138-141
clear_history ==
    /\ thought_history' = <<>>
    /\ branches' = <<>>
    /\ result' = Ok(None)
    /\ UNCHANGED notSequential

(* ============================ specifications ========================== *)
Idle == [pc |-> 0]

Init ==
    /\ analyses = [k \in {} |-> None]
    /\ processes = [k \in {} |-> None]
    /\ now = 0
    /\ result = Ok("init")
    /\ script = Idle
    /\ plans = [k \in {} |-> None]
    /\ thought_history = <<>>
    /\ branches = <<>>
    /\ sessions = <<>>
    /\ mece_analyses = [k \in {} |-> None]
    /\ claim_analyses = [k \in {} |-> None]
    /\ bias_analyses = [k \in {} |-> None]

\* any sequence of 5-Why calls; the tokens start_analysis draws are new
WhyStart ==
    /\ \E id \in AnalysisIds \ DOMAIN analyses, problem \in Problems,
          context \in Contexts :
          start_analysis(id, problem, context)
    /\ UNCHANGED script

WhyAnswer ==
    /\ \E id \in AnalysisIds, level \in LevelArgs, answer \in Texts :
          add_answer(id, level, answer)
    /\ UNCHANGED script

WhyAnswerUnknown ==
    /\ \E id \in UnknownIds, answer \in Texts : add_answer(id, 0, answer)
    /\ UNCHANGED script

NextWhy ==
    \/ WhyStart
    \/ WhyAnswer
    \/ WhyAnswerUnknown

SpecWhy == Init /\ [][NextWhy]_vars

\* any sequence of dialectical calls
DialecticalStart ==
    /\ \E id \in ProcessIds, topic \in Topics, context \in Backgrounds :
          start_dialectical_process(id, topic, context)
    /\ UNCHANGED script

DialecticalThesis ==
    /\ \E id \in ProcessIds \cup UnknownIds, thesis \in Texts, evidence \in Evidences :
          set_thesis(id, thesis, evidence)
    /\ UNCHANGED script

DialecticalAntithesis ==
    /\ \E id \in ProcessIds \cup UnknownIds, antithesis \in Texts, evidence \in Evidences :
          set_antithesis(id, antithesis, evidence)
    /\ UNCHANGED script

DialecticalSynthesis ==
    /\ \E id \in ProcessIds \cup UnknownIds, synthesis \in Texts, reasoning \in Reasonings :
          create_synthesis(id, synthesis, reasoning)
    /\ UNCHANGED script

DialecticalGet ==
    /\ \E id \in ProcessIds \cup UnknownIds : get_process(id)
    /\ UNCHANGED script

NextDialectical ==
    \/ DialecticalStart
    \/ DialecticalThesis
    \/ DialecticalAntithesis
    \/ DialecticalSynthesis
    \/ DialecticalGet

SpecDialectical == Init /\ [][NextDialectical]_vars

\* any sequence of stepwise calls
StepwiseCreate ==
    /\ \E id \in PlanIds, problem \in StepwiseProblems, context \in Contexts :
          create_plan(id, problem, context)
    /\ UNCHANGED script

StepwiseExecute ==
    /\ \E id \in PlanIds, step_number \in StepArgs, text \in Texts :
          execute_step(id, step_number, text)
    /\ UNCHANGED script

StepwiseExecuteUnknown ==
    /\ \E id \in UnknownIds, text \in Texts : execute_step(id, 1, text)
    /\ UNCHANGED script

NextStepwise ==
    \/ StepwiseCreate
    \/ StepwiseExecute
    \/ StepwiseExecuteUnknown

SpecStepwise == Init /\ [][NextStepwise]_vars

\* the arguments of sequential_thinking: one well-formed call and calls that
\* differ from it in the numbers, in the revision, in the branch fields, or
\* in one field that breaks the validation
BaseThought ==
    [thought |-> PyStr("t"), thought_number |-> PyInt(1), total_thoughts |-> PyInt(1),
     next_thought_needed |-> PyBool(TRUE), is_revision |-> PyNone,
     revises_thought |-> PyNone, branch_from_thought |-> PyNone,
     branch_id |-> PyNone, needs_more_thoughts |-> PyNone]

NumberedThoughts ==
    { BaseThought,
      [BaseThought EXCEPT !.total_thoughts = PyInt(2), !.next_thought_needed = PyBool(FALSE)],
      [BaseThought EXCEPT !.thought_number = PyInt(2)],
      [BaseThought EXCEPT !.thought_number = PyBool(TRUE)],
      [BaseThought EXCEPT !.is_revision = PyBool(TRUE), !.revises_thought = PyInt(1)] }

BranchArgs ==
    { <<PyInt(1), PyStr("b1")>>, <<PyInt(1), PyStr("b2")>>, <<PyInt(2), PyStr("b1")>>,
      <<PyInt(1), PyNone>>, <<PyNone, PyStr("b1")>>,
      <<PyInt(1), PyStr("")>>, <<PyInt(0), PyStr("b1")>>, <<PyInt(1), PyList>> }

BranchThoughts ==
    { [BaseThought EXCEPT !.branch_from_thought = b[1], !.branch_id = b[2]] : b \in BranchArgs }

InvalidThoughts ==
    { [BaseThought EXCEPT !.thought = v] : v \in {PyNone, PyStr(""), PyInt(1)} }
    \cup { [BaseThought EXCEPT !.thought_number = v] : v \in {PyNone, PyStr("1"), PyInt(0)} }
    \cup { [BaseThought EXCEPT !.total_thoughts = v] : v \in {PyNone, PyStr("1")} }
    \cup { [BaseThought EXCEPT !.next_thought_needed = v] : v \in {PyNone, PyInt(1), PyStr("true")} }

ThoughtInputs == NumberedThoughts \cup BranchThoughts \cup InvalidThoughts

\* any sequence of sequential-thinking calls
SequentialThought ==
    /\ \E input_data \in ThoughtInputs : process_thought(input_data)
    /\ UNCHANGED script

SequentialClear ==
    /\ clear_history
    /\ UNCHANGED script

NextSequential ==
    \/ SequentialThought
    \/ SequentialClear

SpecSequential == Init /\ [][NextSequential]_vars

\* the caller of test_full_dialectical_process, with a synthesis attempted
\* before the antithesis: start, thesis A, synthesis S, antithesis B,
\* synthesis S, get_process
ScenarioStart ==
    /\ script.pc = 0
    /\ \E id \in ProcessIds, topic \in Topics, context \in Backgrounds :
          /\ start_dialectical_process(id, topic, context)
          /\ \E A \in Texts, B \in Texts, S \in Texts :
                script' = [pc |-> 1, id |-> id, A |-> A, B |-> B, S |-> S]

ScenarioThesis ==
    /\ script.pc = 1
    /\ \E evidence \in Evidences : set_thesis(script.id, script.A, evidence)
    /\ script' = [script EXCEPT !.pc = 2]

ScenarioEarlySynthesis ==
    /\ script.pc = 2
    /\ \E reasoning \in Reasonings : create_synthesis(script.id, script.S, reasoning)
    /\ script' = [script EXCEPT !.pc = 3]

ScenarioAntithesis ==
    /\ script.pc = 3
    /\ \E evidence \in Evidences : set_antithesis(script.id, script.B, evidence)
    /\ script' = [script EXCEPT !.pc = 4]

ScenarioSynthesis ==
    /\ script.pc = 4
    /\ \E reasoning \in Reasonings : create_synthesis(script.id, script.S, reasoning)
    /\ script' = [script EXCEPT !.pc = 5]

ScenarioGet ==
    /\ script.pc = 5
    /\ get_process(script.id)
    /\ script' = [script EXCEPT !.pc = 6]

NextScenario ==
    \/ ScenarioStart
    \/ ScenarioThesis
    \/ ScenarioEarlySynthesis
    \/ ScenarioAntithesis
    \/ ScenarioSynthesis
    \/ ScenarioGet

SpecScenario == Init /\ [][NextScenario]_vars

\* any sequence of calls of one of the three tools that mark completion:
\* a session works with one tool, the stores of the other two stay empty
SessionWhy ==
    /\ DOMAIN processes = {} /\ DOMAIN plans = {}
    /\ NextWhy

SessionDialectical ==
    /\ DOMAIN analyses = {} /\ DOMAIN plans = {}
    /\ NextDialectical

SessionStepwise ==
    /\ DOMAIN analyses = {} /\ DOMAIN processes = {}
    /\ NextStepwise

NextCompletion ==
    \/ SessionWhy
    \/ SessionDialectical
    \/ SessionStepwise

SpecCompletion == Init /\ [][NextCompletion]_vars

(* =============================== claims =============================== *)

\* the call returned an error text or raised into the router
Failed(r) == r.status \in {"error", "raised"}

\* C1: in every analysis, after any sequence of start_analysis and
\* add_answer calls with any integer level, whys holds at most 5 entries.
C1_AtMostFiveWhys ==
    \A id \in DOMAIN analyses : Len(analyses[id].whys) <= 5

\* level is an index of whys whose entry holds an answer
Recorded(analysis, level) ==
    /\ 0 <= level
    /\ level < Len(analysis.whys)
    /\ analysis.whys[level + 1].answer # None

\* C2: add_answer on a level whose answer is already recorded returns an
\* error result and leaves the stored answer, the length of the sequence
\* and the status (the whole analysis) unchanged.
\* (every step returns an error and changes no analysis, or else is no
\* add_answer call on a recorded level.)
C2_RecordedAnswerImmutable ==
    [][\/ /\ result'.status = "error"
          /\ analyses' = analyses
       \/ \A id \in AnalysisIds, level \in LevelArgs, answer \in Texts :
             ~ ( /\ id \in DOMAIN analyses
                 /\ Recorded(analyses[id], level)
                 /\ add_answer(id, level, answer) )]_vars

C2_Witness ==
    \E id \in DOMAIN analyses :
        /\ result = Err("already_answered")
        /\ Recorded(analyses[id], 0)

\* C3: add_answer fails without mutating the analysis whenever level < 0
\* or level >= the current number of entries.
C3_OutOfRangeLevelRejected ==
    [][\A id \in AnalysisIds, level \in LevelArgs, answer \in Texts :
          ( /\ id \in DOMAIN analyses
            /\ (level < 0 \/ level >= Len(analyses[id].whys))
            /\ add_answer(id, level, answer) )
          => /\ Failed(result')
             /\ analyses' = analyses]_vars

\* C4: every entry except possibly the last one has a recorded answer, so
\* the question of level L exists only once level L-1 is answered.
C4_NoUnansweredGap ==
    \A id \in DOMAIN analyses :
        \A i \in 1..(Len(analyses[id].whys) - 1) :
            analyses[id].whys[i].answer # None

C4_Witness ==
    \E id \in DOMAIN analyses :
        /\ Len(analyses[id].whys) >= 3
        /\ analyses[id].whys[Len(analyses[id].whys)].answer = None

\* the five levels 0..4 all exist and hold an answer
FiveAnswered(analysis) ==
    /\ Len(analysis.whys) >= 5
    /\ \A i \in 1..5 : analysis.whys[i].answer # None

\* C5: status is completed if and only if all five levels 0..4 have a
\* recorded answer (status flips in the call that answers level 4).
C5_CompletedIffFiveAnswered ==
    \A id \in DOMAIN analyses :
        (analyses[id].status = "completed") <=> FiveAnswered(analyses[id])

\* C6: set_antithesis on a process without thesis, and create_synthesis on
\* a process without thesis or without antithesis, return an error result
\* and leave the process as it was, completed_at staying null.
C6_OutOfOrderRejected ==
    [][\A id \in ProcessIds :
          id \in DOMAIN processes =>
            /\ ( /\ processes[id].thesis = NoPosition
                 /\ \E antithesis \in Texts, evidence \in Evidences :
                       set_antithesis(id, antithesis, evidence) )
               => /\ result'.status = "error"
                  /\ processes' = processes
                  /\ processes'[id].completed_at = NoTime
            /\ ( /\ \/ processes[id].thesis = NoPosition
                    \/ processes[id].antithesis = NoPosition
                 /\ \E synthesis \in Texts, reasoning \in Reasonings :
                       create_synthesis(id, synthesis, reasoning) )
               => /\ result'.status = "error"
                  /\ processes' = processes
                  /\ processes'[id].completed_at = NoTime]_vars

C6_Witness ==
    \E id \in DOMAIN processes :
        /\ result = Err("set_thesis_and_antithesis")
        /\ processes[id].thesis # NoPosition
        /\ processes[id].antithesis = NoPosition
        /\ processes[id].completed_at = NoTime

\* C7: the set positions form a prefix of thesis, antithesis, synthesis.
C7_PositionsFormPrefix ==
    \A id \in DOMAIN processes :
        /\ processes[id].antithesis # NoPosition => processes[id].thesis # NoPosition
        /\ processes[id].synthesis # NoPosition =>
              /\ processes[id].thesis # NoPosition
              /\ processes[id].antithesis # NoPosition

C7_Witness ==
    \E id \in DOMAIN processes : processes[id].synthesis # NoPosition

\* C8: once antithesis is set no operation changes the thesis, and once
\* synthesis is set no operation changes thesis, antithesis or synthesis.
C8_EarlierPositionsFrozen ==
    [][\A id \in DOMAIN processes :
          /\ processes[id].antithesis # NoPosition =>
                processes'[id].thesis = processes[id].thesis
          /\ processes[id].synthesis # NoPosition =>
                /\ processes'[id].thesis = processes[id].thesis
                /\ processes'[id].antithesis = processes[id].antithesis
                /\ processes'[id].synthesis = processes[id].synthesis]_vars

\* C9: completed_at is written once, by the first successful
\* create_synthesis; no later operation changes its value.
C9_CompletedAtWrittenOnce ==
    [][\A id \in DOMAIN processes :
          processes[id].completed_at # NoTime =>
              processes'[id].completed_at = processes[id].completed_at]_vars

\* C10: for a new process, set_thesis(A) then create_synthesis(S) gives an
\* error with completed_at still null; set_antithesis(B) and
\* create_synthesis(S) then both succeed, the process holds A, B, S and a
\* non-null completed_at, and get_process reports it completed.
C10_EndToEnd ==
    /\ script.pc = 2 => result.status = "ok"
    /\ script.pc = 3 =>
          /\ result.status = "error"
          /\ processes[script.id].completed_at = NoTime
          /\ processes[script.id].synthesis = NoPosition
    /\ script.pc = 4 => result.status = "ok"
    /\ script.pc \in {5, 6} =>
          /\ result.status = "ok"
          /\ processes[script.id].thesis.content = script.A
          /\ processes[script.id].antithesis.content = script.B
          /\ processes[script.id].synthesis.content = script.S
          /\ processes[script.id].completed_at # NoTime
    /\ script.pc = 6 =>
          /\ result.next = "completed"
          /\ result.completed_at # NoTime
          /\ result.thesis = script.A
          /\ result.antithesis = script.B
          /\ result.synthesis = script.S

C10_Witness ==
    /\ script.pc = 6
    /\ result.status = "ok"
    /\ result.next = "completed"
    /\ script.A # script.B

NoSuchStep(plan, step_number) ==
    \A i \in 1..Len(plan.steps) : plan.steps[i].number # step_number

\* C12: execute_step with an unknown plan id, or with a step number that
\* matches no step of the plan, returns an error result (it does not raise)
\* and leaves every plan and every step unchanged.
C12_UnknownPlanOrStepRejected ==
    [][\/ (result'.status = "error" /\ plans' = plans)
       \/ \A id \in PlanIds \cup UnknownIds, step_number \in StepArgs, text \in Texts :
             ~ /\ \/ id \notin DOMAIN plans
                  \/ NoSuchStep(plans[id], step_number)
               /\ execute_step(id, step_number, text)]_vars

\* step 0 or 7 was refused on a plan that has a completed step
C12_Witness ==
    /\ result = Err("step_not_found")
    /\ \E id \in DOMAIN plans : completed_steps(plans[id].steps) > 0

C14_PlanCompletedIffAllSteps ==
    \A id \in DOMAIN plans :
        plans[id].completed_at # NoTime
        <=> \A i \in 1..Len(plans[id].steps) : plans[id].steps[i].status = "completed"

\* a plan completed out of order: step 6 was executed before step 1
C14_Witness ==
    \E id \in DOMAIN plans :
        /\ plans[id].completed_at # NoTime
        /\ plans[id].steps[6].completed_at = 0
        /\ plans[id].steps[1].completed_at = 1

\* C15: once a plan's completed_at is set, executing a step again leaves
\* its value unchanged.
C15_PlanCompletedAtWrittenOnce ==
    [][\A id \in DOMAIN plans :
          plans[id].completed_at # NoTime
          => plans'[id].completed_at = plans[id].completed_at]_vars

ContractViolated(input_data) ==
    \/ input_data.thought.t # "str" \/ input_data.thought.s = ""
    \/ input_data.thought_number.t # "int"
    \/ input_data.total_thoughts.t # "int"
    \/ input_data.next_thought_needed.t # "bool"

\* C17: a process_thought call whose input violates the validation contract
\* returns a result with status failed and leaves the thought history and
\* the branch map unchanged.
C17_InvalidInputFails ==
    [][\/ /\ result'.status = "failed"
          /\ thought_history' = thought_history
          /\ branches' = branches
       \/ \A input_data \in ThoughtInputs :
             ~ (ContractViolated(input_data) /\ process_thought(input_data))]_vars

Larger(a, b) == IF a > b THEN a ELSE b

\* C18: for every successful process_thought call the total_thoughts stored
\* with the entry and returned in the response equals the larger of the
\* supplied total_thoughts and the supplied thought_number; when
\* thought_number is not larger it is the supplied value itself.
C18_TotalIsMaximum ==
    [][\A input_data \in ThoughtInputs :
          /\ result'.status = "success"
          /\ Len(thought_history') = Len(thought_history) + 1
          /\ process_thought(input_data)
          => LET entry == thought_history'[Len(thought_history')]
                 most == Larger(input_data.total_thoughts.n, input_data.thought_number.n)
             IN  /\ entry.total_thoughts.n = most
                 /\ result'.total_thoughts.n = most
                 /\ entry.thought_number = input_data.thought_number
                 /\ input_data.thought_number.n <= input_data.total_thoughts.n
                    => /\ entry.total_thoughts = input_data.total_thoughts
                       /\ result'.total_thoughts = input_data.total_thoughts]_vars

\* the call with thought_number 2 (supplied with total_thoughts 1) stored
\* and returned a total of 2
C18_Witness ==
    /\ result.status = "success"
    /\ result.thought_number = PyInt(2)
    /\ result.total_thoughts = PyInt(2)
    /\ thought_history[Len(thought_history)].total_thoughts = PyInt(2)

IsPrefix(a, b) == Len(a) <= Len(b) /\ SubSeq(b, 1, Len(a)) = a

\* C19: the thought history is append-only: every successful process_thought
\* appends exactly one entry at the end and leaves the earlier entries and
\* their order unchanged; no operation other than clear_history, which
\* empties the history and the branch map, removes an entry.
C19_HistoryAppendOnly ==
    [][\/ /\ result'.status = "success"
          /\ Len(thought_history') = Len(thought_history) + 1
          /\ IsPrefix(thought_history, thought_history')
       \/ /\ result'.status = "failed"
          /\ IsPrefix(thought_history, thought_history')
       \/ clear_history]_vars

\* three calls went through and a revision of thought 1 is the last entry,
\* after the thought it revises
C19_Witness ==
    /\ result.status = "success"
    /\ result.thought_history_length = 3
    /\ Len(thought_history) = 3
    /\ Truthy(thought_history[3].is_revision)
    /\ ~Truthy(thought_history[1].is_revision)

\* the entry carries a branch_from_thought and a branch_id
CarriesBoth(entry) == entry.branch_from_thought # PyNone /\ entry.branch_id # PyNone

\* the entries of the history that carry both and have the branch id
EntriesOf(history, key) ==
    LET Test(entry) == CarriesBoth(entry) /\ entry.branch_id = key
    IN  SelectSeq(history, Test)

\* C20: a successfully appended entry is added to the branch list of its
\* branch_id if and only if it carries both a branch_from_thought and a
\* branch_id; in every state each entry is in at most one branch, and every
\* branch list is the subsequence of the history, in its order, of exactly
\* the entries that carry that branch id together with a branch origin.
C20_BranchMembership ==
    [][/\ result'.status = "success" /\ Len(thought_history') = Len(thought_history) + 1
          => LET entry == thought_history'[Len(thought_history')]
             IN  IF CarriesBoth(entry)
                 THEN \E i \in 1..Len(branches') :
                         /\ branches'[i].id = entry.branch_id
                         /\ Len(branches'[i].thoughts) > 0
                         /\ branches'[i].thoughts[Len(branches'[i].thoughts)] = entry
                         /\ branches' # branches
                 ELSE branches' = branches
       /\ \A i \in 1..Len(branches') :
             /\ \A j \in 1..Len(branches') : i # j => branches'[i].id # branches'[j].id
             /\ branches'[i].thoughts = EntriesOf(thought_history', branches'[i].id)]_vars

(* ------------------------------ SCAMPER ------------------------------- *)
\* what no SCAMPER call touches
notScamper == <<analyses, processes, plans, thought_history, branches, mece_analyses, claim_analyses, bias_analyses>>

\* most apply_technique, evaluate_ideas and generate_comprehensive_ideas
\* calls the model lets the store receive, over all sessions
MaxCalls == 2
\* the last clock read of a call, short of the very last, after which the
\* model lets the instant change
MaxJump == 3
\* identifiers uuid4 can produce for sessions
SessionIds == {"c1", "c2"}

\* scamper.py 9-17: the values of SCAMPERTechnique, in declaration order
SCAMPERTechnique ==
    <<"Substitute", "Combine", "Adapt", "Modify", "Put to other use",
      "Eliminate", "Reverse">>

\* str.lower() on the technique names the model passes
Lower(s) ==
    CASE s = "REVERSE" -> "reverse"
      [] s = "Combine" -> "combine"
      [] s = "Put to other use" -> "put to other use"
      [] OTHER -> s

\* lines 191-206: technique_map; the Japanese keys are written in Latin
\* letters (daitai, ketsugou, ouyou, henkou, tenyou, jokyo, gyakuten)
technique_map ==
    ("substitute" :> "Substitute") @@ ("combine" :> "Combine") @@
    ("adapt" :> "Adapt") @@ ("modify" :> "Modify") @@
    ("put_to_other_use" :> "Put to other use") @@
    ("eliminate" :> "Eliminate") @@ ("reverse" :> "Reverse") @@
    ("daitai" :> "Substitute") @@ ("ketsugou" :> "Combine") @@
    ("ouyou" :> "Adapt") @@ ("henkou" :> "Modify") @@
    ("tenyou" :> "Put to other use") @@ ("jokyo" :> "Eliminate") @@
    ("gyakuten" :> "Reverse")

\* variant: a name that is no key stands for the first technique
_get_technique_enumLenient(technique) ==
    IF Lower(technique) \in DOMAIN technique_map
    THEN technique_map[Lower(technique)]
    ELSE "Substitute"

\* lines 188-212: the enum value of a technique name, None where the code
\* raises ValueError
_get_technique_enum(technique) ==
    IF Lower(technique) \in DOMAIN technique_map
    THEN technique_map[Lower(technique)]
    ELSE None

\* the n values n successive reads of datetime.now() return, the clock
\* standing at from: they never decrease (Times has two instants, so the
\* reads change value at most once: after the k-th read, which is one of
\* the first MaxJump reads or the last one)
Stamps(n, from) ==
    { [j \in 1..n |-> IF j <= k THEN from ELSE t] :
        k \in {j \in 0..n : j <= MaxJump \/ j = n},
        t \in {u \in Times : u >= from} }

\* variant: every idea carries the first technique
SCAMPERIdeaUntagged(id, technique, idea, explanation, t) ==
    [id |-> id, technique |-> "Substitute", idea |-> idea,
     explanation |-> explanation, feasibility_score |-> PyInt(0),
     impact_score |-> PyInt(0), created_at |-> t]

\* lines 23-30: SCAMPERIdea.__init__; uuid4 gives every idea its own id,
\* here the session's id and the idea's place in the session
SCAMPERIdea(id, technique, idea, explanation, t) ==
    [id |-> id, technique |-> technique, idea |-> idea,
     explanation |-> explanation, feasibility_score |-> PyInt(0),
     impact_score |-> PyInt(0), created_at |-> t]

\* lines 36-44: SCAMPERSession.__init__, the two clock reads being t1, t2
SCAMPERSession(id, topic, current_situation, t1, t2) ==
    [id |-> id, topic |-> topic, current_situation |-> current_situation,
     ideas |-> <<>>, active_technique |-> None, session_notes |-> <<>>,
     created_at |-> t1, updated_at |-> t2]

\* a line of session_notes: its kind, the text it embeds and the count
Note(kind, text, n) == [kind |-> kind, text |-> text, n |-> n]

\* lines 52-59 and 164-167: the note of the background text, if truthy
ContextNotes(context) ==
    IF context # None /\ context # "" THEN <<Note("context", context, 0)>>
    ELSE <<>>

\* lines 318-331: one note per technique, in the order of the dict
_add_technique_explanations ==
    [k \in 1..Len(SCAMPERTechnique) |->
        Note("explanation", SCAMPERTechnique[k], 0)]

\* session_id in self.sessions, and the place of that session
SessionKeys == {sessions[k].id : k \in DOMAIN sessions}
SessionAt(session_id) ==
    CHOOSE k \in DOMAIN sessions : sessions[k].id = session_id

\* the calls of apply_technique, evaluate_ideas and
\* generate_comprehensive_ideas the sessions received: each left a note
CallNotes(session) ==
    Cardinality({k \in DOMAIN session.session_notes :
        session.session_notes[k].kind \in
            {"applied", "evaluated", "comprehensive"}})
RECURSIVE TotalCallsOf(_)
TotalCallsOf(ss) ==
    IF ss = <<>> THEN 0 ELSE CallNotes(Head(ss)) + TotalCallsOf(Tail(ss))
TotalCalls == TotalCallsOf(sessions)

\* lines 53-70
start_session(id, topic, current_situation, context) ==
    /\ id \notin SessionKeys
    /\ \E ts \in Stamps(2, now) :
        LET session == SCAMPERSession(id, topic, current_situation,
                                      ts[1], ts[2])
        IN /\ sessions' = Append(sessions,
                [session EXCEPT !.session_notes =
                    ContextNotes(context) \o _add_technique_explanations])
           /\ now' = ts[2]
    /\ result' = [status |-> "ok", msg |-> "session_started", id |-> id,
                  topic |-> topic, current_situation |-> current_situation]
    /\ UNCHANGED notScamper

\* variant: only the first supplied idea is appended
AppliedIdeasFirstOnly(session, technique, ideas, explanations, ts) ==
    session.ideas \o
    [i \in 1..(IF ideas = <<>> THEN 0 ELSE 1) |->
        SCAMPERIdea(<<session.id, Len(session.ideas) + i>>, technique,
            ideas[i],
            IF explanations # <<>> /\ i <= Len(explanations)
            THEN explanations[i] ELSE "",
            ts[i])]
\* lines 90-93: the ideas of one call appended to the session's list, the
\* clock reads being ts
AppliedIdeas(session, technique, ideas, explanations, ts) ==
    session.ideas \o
    [i \in 1..Len(ideas) |->
        SCAMPERIdea(<<session.id, Len(session.ideas) + i>>, technique,
            ideas[i],
            IF explanations # <<>> /\ i <= Len(explanations)
            THEN explanations[i] ELSE "",
            ts[i])]

\* the techniques of a list of ideas
TechniquesOf(ideas) == {ideas[k].technique : k \in DOMAIN ideas}

\* lines 72-104; ideas is what the caller put under "ideas": a list (its
\* elements in v) or None, which enumerate() refuses with a TypeError
\* only after active_technique was assigned; explanations is a list,
\* empty when the argument is missing
apply_technique(session_id, technique, ideas, explanations) ==
    /\ IF session_id \notin SessionKeys
       THEN /\ result' = Err("session_not_found")
            /\ UNCHANGED <<sessions, now>>
       ELSE IF _get_technique_enum(technique) = None
       THEN /\ result' = Err("invalid_technique")
            /\ UNCHANGED <<sessions, now>>
       ELSE
         LET at == SessionAt(session_id)
             scamper_technique == _get_technique_enum(technique)
             session == [sessions[at] EXCEPT
                            !.active_technique = scamper_technique]
         IN IF ideas.t # "list"
            THEN /\ sessions' = [sessions EXCEPT ![at] = session]
                 /\ result' = Raised("TypeError")
                 /\ UNCHANGED now
            ELSE
              /\ TotalCalls < MaxCalls
              /\ \E ts \in Stamps(Len(ideas.v) + 1, now) :
                  LET all == AppliedIdeas(session, scamper_technique,
                                          ideas.v, explanations, ts)
                  IN /\ sessions' = [sessions EXCEPT ![at] =
                          [session EXCEPT
                              !.ideas = all,
                              !.updated_at = ts[Len(ideas.v) + 1],
                              !.session_notes = Append(@,
                                  Note("applied", scamper_technique,
                                       Len(ideas.v)))]]
                     /\ now' = ts[Len(ideas.v) + 1]
                     /\ result' =
                          [status |-> "ok", msg |-> "technique_applied",
                           technique |-> scamper_technique,
                           ideas |-> ideas.v,
                           total |-> Len(all),
                           techniques |-> Cardinality(TechniquesOf(all))]
    /\ UNCHANGED notScamper

\* an element of idea_evaluations: a dict with the keys idea, feasibility
\* and impact (a missing key reads as "" or 0), or a value that is no dict
Evaluation(idea, feasibility, impact) ==
    [t |-> "dict", idea |-> idea, feasibility |-> feasibility,
     impact |-> impact]
NotADict == [t |-> "str", idea |-> "", feasibility |-> PyNone,
             impact |-> PyNone]

\* variant: the last idea with that text is taken
FirstWithTextFromEnd(ideas, idea_text) ==
    IF \E k \in DOMAIN ideas : ideas[k].idea = idea_text
    THEN CHOOSE k \in DOMAIN ideas :
            /\ ideas[k].idea = idea_text
            /\ \A j \in (k + 1)..Len(ideas) : ideas[j].idea # idea_text
    ELSE 0

\* lines 120-124: the place of the first idea with that text, 0 if none
FirstWithText(ideas, idea_text) ==
    IF \E k \in DOMAIN ideas : ideas[k].idea = idea_text
    THEN CHOOSE k \in DOMAIN ideas :
            /\ ideas[k].idea = idea_text
            /\ \A j \in 1..(k - 1) : ideas[j].idea # idea_text
    ELSE 0

\* lines 115-124: one evaluation written to the first idea with its text
Scored(ideas, evaluation) ==
    LET k == FirstWithText(ideas, evaluation.idea)
    IN IF k = 0 THEN ideas
       ELSE [ideas EXCEPT ![k].feasibility_score = evaluation.feasibility,
                          ![k].impact_score = evaluation.impact]

\* lines 114-124: the loop over idea_evaluations, which stops where
\* evaluation.get raises AttributeError on a value that is no dict
RECURSIVE Evaluated(_, _)
Evaluated(ideas, idea_evaluations) ==
    IF idea_evaluations = <<>> \/ Head(idea_evaluations).t # "dict"
    THEN ideas
    ELSE Evaluated(Scored(ideas, Head(idea_evaluations)),
                   Tail(idea_evaluations))

\* sorted(pairs, key=first, reverse=True) on a list of <<key, value>>:
\* descending keys, equal keys keeping the order of the list
RECURSIVE sorted_reverse(_)
RECURSIVE InsertByKey(_, _)
RECURSIVE InsertByKeyAscending(_, _)
\* variant: ascending keys
InsertByKeyAscending(sorted, pair) ==
    IF sorted = <<>> THEN <<pair>>
    ELSE IF Head(sorted)[1] <= pair[1]
    THEN <<Head(sorted)>> \o InsertByKeyAscending(Tail(sorted), pair)
    ELSE <<pair>> \o sorted
\* the pair put after the pairs of the sorted list whose key is not smaller
InsertByKey(sorted, pair) ==
    IF sorted = <<>> THEN <<pair>>
    ELSE IF Head(sorted)[1] >= pair[1]
    THEN <<Head(sorted)>> \o InsertByKey(Tail(sorted), pair)
    ELSE <<pair>> \o sorted
sorted_reverse(pairs) ==
    IF pairs = <<>> THEN <<>>
    ELSE InsertByKey(sorted_reverse(SubSeq(pairs, 1, Len(pairs) - 1)),
                     pairs[Len(pairs)])

\* s[:n]
Take(s, n) == SubSeq(s, 1, IF Len(s) < n THEN Len(s) ELSE n)
\* [f(s[k]) for k in keep], in the order of s
RECURSIVE Filtered(_, _)
Filtered(s, keep) ==
    IF s = <<>> THEN <<>>
    ELSE LET front == Filtered(SubSeq(s, 1, Len(s) - 1), keep)
         IN IF Len(s) \in keep THEN Append(front, s[Len(s)]) ELSE front

\* a score Python can compare with 0 and add
IsNumber(v) == v.t \in {"int", "bool"}

\* lines 378-379 and 393-396: the comparisons and sums of
\* _format_evaluation_result that raise TypeError
FormatRaises(ideas) ==
    \E k \in DOMAIN ideas :
        \/ ~IsNumber(ideas[k].feasibility_score)
        \/ /\ ideas[k].feasibility_score.n > 0
           /\ ~IsNumber(ideas[k].impact_score)

\* lines 371-404: the evaluated ideas by descending total, at most ten
_format_evaluation_result(session) ==
    LET evaluated == Filtered(session.ideas,
            {k \in DOMAIN session.ideas :
                session.ideas[k].feasibility_score.n > 0})
        pairs == [k \in DOMAIN evaluated |->
            <<evaluated[k].feasibility_score.n +
              evaluated[k].impact_score.n, evaluated[k]>>]
        ranked == Take(sorted_reverse(pairs), 10)
    IN [status |-> "ok", msg |-> "ideas_evaluated",
        topic |-> session.topic,
        ranked |-> [k \in DOMAIN ranked |->
            [idea |-> ranked[k][2].idea,
             technique |-> ranked[k][2].technique,
             feasibility |-> ranked[k][2].feasibility_score,
             impact |-> ranked[k][2].impact_score,
             total |-> ranked[k][1]]]]

\* lines 106-132
evaluate_ideas(session_id, idea_evaluations) ==
    /\ IF session_id \notin SessionKeys
       THEN /\ result' = Err("session_not_found")
            /\ UNCHANGED <<sessions, now>>
       ELSE
         LET at == SessionAt(session_id)
             session == [sessions[at] EXCEPT
                 !.ideas = Evaluated(@, idea_evaluations)]
         IN IF \E k \in DOMAIN idea_evaluations :
                    idea_evaluations[k].t # "dict"
            THEN /\ sessions' = [sessions EXCEPT ![at] = session]
                 /\ result' = Raised("AttributeError")
                 /\ UNCHANGED now
            ELSE
              /\ TotalCalls < MaxCalls
              /\ \E t \in Times :
                  /\ t >= now
                  /\ now' = t
                  /\ sessions' = [sessions EXCEPT ![at] =
                        [session EXCEPT
                            !.updated_at = t,
                            !.session_notes = Append(@,
                                Note("evaluated", "",
                                     Len(idea_evaluations)))]]
              /\ result' = IF FormatRaises(session.ideas)
                           THEN Raised("TypeError")
                           ELSE _format_evaluation_result(session)
    /\ UNCHANGED notScamper

\* the distinct techniques of a list of ideas, in the order they first
\* appear (the key order of the dict of lines 416-420)
RECURSIVE FirstSeen(_)
FirstSeen(ideas) ==
    IF ideas = <<>> THEN <<>>
    ELSE LET front == FirstSeen(SubSeq(ideas, 1, Len(ideas) - 1))
             technique == ideas[Len(ideas)].technique
         IN IF \E k \in DOMAIN front : front[k] = technique
            THEN front ELSE Append(front, technique)

\* lines 406-441: what the summary of a session shows
_format_session_summary(session) ==
    LET seen == FirstSeen(session.ideas)
        latest_ideas == Take(sorted_reverse(
            [k \in DOMAIN session.ideas |->
                <<session.ideas[k].created_at, session.ideas[k]>>]), 5)
        notes == session.session_notes
    IN [status |-> "ok", msg |-> "session_summary", id |-> session.id,
        topic |-> session.topic,
        current_situation |-> session.current_situation,
        created_at |-> session.created_at,
        updated_at |-> session.updated_at,
        technique_counts |-> [k \in DOMAIN seen |->
            <<seen[k], Cardinality({j \in DOMAIN session.ideas :
                session.ideas[j].technique = seen[k]})>>],
        total |-> Len(session.ideas),
        latest_ideas |-> [k \in DOMAIN latest_ideas |->
            [idea |-> latest_ideas[k][2].idea,
             technique |-> latest_ideas[k][2].technique,
             explanation |-> latest_ideas[k][2].explanation]],
        session_notes |-> SubSeq(notes,
            IF Len(notes) > 3 THEN Len(notes) - 2 ELSE 1, Len(notes))]

\* lines 134-142
get_session(session_id) ==
    /\ result' = IF session_id \notin SessionKeys
                 THEN Err("session_not_found")
                 ELSE _format_session_summary(sessions[SessionAt(session_id)])
    /\ UNCHANGED <<sessions, now>>
    /\ UNCHANGED notScamper

\* lines 152-158: the sessions by descending updated_at, and what the
\* list shows of each
ListedSessions(ss) ==
    LET ordered == sorted_reverse(
            [k \in DOMAIN ss |-> <<ss[k].updated_at, ss[k]>>])
    IN [k \in DOMAIN ordered |->
            [id |-> ordered[k][2].id, topic |-> ordered[k][2].topic,
             ideas |-> Len(ordered[k][2].ideas),
             created_at |-> ordered[k][2].created_at,
             updated_at |-> ordered[k][2].updated_at]]

\* lines 144-160
list_sessions ==
    /\ result' = IF sessions = <<>>
                 THEN [status |-> "ok", msg |-> "no_sessions",
                       sessions |-> <<>>]
                 ELSE [status |-> "ok", msg |-> "session_list",
                       sessions |-> ListedSessions(sessions)]
    /\ UNCHANGED <<sessions, now>>
    /\ UNCHANGED notScamper

\* lines 260-316: the three ideas generated for a technique, the first
\* one embedding the topic
_generate_ideas_for_technique(technique, topic) ==
    <<[text |-> technique \o "-1:" \o topic,
       explanation |-> technique \o "-1-why"],
      [text |-> technique \o "-2", explanation |-> technique \o "-2-why"],
      [text |-> technique \o "-3", explanation |-> technique \o "-3-why"]>>

\* lines 162-186, the clock reads being ts: two of the session, then one
\* per idea
generate_comprehensive_ideas(id, topic, current_situation, context) ==
    /\ id \notin SessionKeys
    /\ TotalCalls < MaxCalls
    /\ \E ts \in Stamps(2 + 3 * Len(SCAMPERTechnique), now) :
        LET session == SCAMPERSession(id, topic, current_situation,
                                      ts[1], ts[2])
            ideas == [n \in 1..(3 * Len(SCAMPERTechnique)) |->
                LET technique == SCAMPERTechnique[((n - 1) \div 3) + 1]
                    idea == _generate_ideas_for_technique(technique,
                                topic)[((n - 1) % 3) + 1]
                IN SCAMPERIdea(<<id, n>>, technique, idea.text,
                               idea.explanation, ts[2 + n])]
        IN /\ sessions' = Append(sessions,
                [session EXCEPT
                    !.ideas = ideas,
                    !.session_notes = Append(ContextNotes(context),
                        Note("comprehensive", "", 0))])
           /\ now' = ts[2 + 3 * Len(SCAMPERTechnique)]
           /\ result' = [status |-> "ok", msg |-> "comprehensive_result",
                         id |-> id, topic |-> topic,
                         current_situation |-> current_situation,
                         ideas |-> [n \in DOMAIN ideas |->
                             <<ideas[n].technique, ideas[n].idea,
                               ideas[n].explanation>>]]
    /\ UNCHANGED notScamper

\* ---- any sequence of SCAMPER calls
\* the session start_session creates and the one
\* generate_comprehensive_ideas creates
StartIds == {"c1"}
GenerateIds == {"c2"}
\* the technique names callers pass: English in two spellings, Japanese,
\* the display name of the fifth technique, and a word that is no technique
TechniqueArgs ==
    {"substitute", "REVERSE", "gyakuten", "Put to other use", "bogus"}
AcceptedArgs == {"substitute", "REVERSE", "gyakuten"}
\* the ideas and explanations arguments: lists of texts, one with a
\* repeated text, with fewer explanations than ideas or none; and None
\* for the ideas
IdeaArgs ==
    {[t |-> "list", v |-> <<>>, explanations |-> <<>>],
     [t |-> "list", v |-> <<"A">>, explanations |-> <<"E">>],
     [t |-> "list", v |-> <<"A", "A">>, explanations |-> <<>>],
     [t |-> "list", v |-> <<"A", "B">>, explanations |-> <<"E">>],
     [t |-> "none", v |-> <<>>, explanations |-> <<>>]}
\* the idea_evaluations argument: a score out of 0..10, two evaluations
\* of one text, a score that is a string, a list whose second element is
\* no dict
EvaluationLists ==
    {<<>>,
     <<Evaluation("B", PyInt(11), PyInt(0 - 1))>>,
     <<Evaluation("A", PyInt(7), PyInt(8)),
       Evaluation("A", PyInt(3), PyInt(4))>>,
     <<Evaluation("A", PyStr("high"), PyInt(1))>>,
     <<Evaluation("A", PyInt(5), PyInt(5)), NotADict>>}

\* start_session with a background text
ScamperStart ==
    /\ \E id \in StartIds : start_session(id, "X", "S", "ctx")
    /\ UNCHANGED script
\* apply_technique with a technique name the code accepts, on a session
\* of the store
ScamperApply ==
    /\ \E id \in SessionKeys, technique \in AcceptedArgs, ideas \in IdeaArgs :
        apply_technique(id, technique, ideas, ideas.explanations)
    /\ UNCHANGED script
\* apply_technique with an id that is no key or a name that is no
\* technique
ScamperApplyRefused ==
    /\ \E id \in SessionIds \cup UnknownIds, technique \in TechniqueArgs :
        /\ id \notin SessionKeys \/ technique \notin AcceptedArgs
        /\ apply_technique(id, technique,
                [t |-> "list", v |-> <<"A">>], <<>>)
    /\ UNCHANGED script
ScamperEvaluate ==
    /\ \E id \in SessionKeys, idea_evaluations \in EvaluationLists :
        evaluate_ideas(id, idea_evaluations)
    /\ UNCHANGED script
ScamperEvaluateUnknown ==
    /\ \E id \in UnknownIds :
        evaluate_ideas(id, <<Evaluation("A", PyInt(7), PyInt(8))>>)
    /\ UNCHANGED script
ScamperGet ==
    /\ \E id \in SessionIds \cup UnknownIds : get_session(id)
    /\ UNCHANGED script
ScamperList ==
    /\ list_sessions
    /\ UNCHANGED script
\* generate_comprehensive_ideas without a background text
ScamperGenerate ==
    /\ \E id \in GenerateIds :
        generate_comprehensive_ideas(id, "X", "S", None)
    /\ UNCHANGED script

NextScamper ==
    \/ ScamperStart
    \/ ScamperApply
    \/ ScamperApplyRefused
    \/ ScamperEvaluate
    \/ ScamperEvaluateUnknown
    \/ ScamperGet
    \/ ScamperList
    \/ ScamperGenerate

SpecScamper == Init /\ [][NextScamper]_vars

(* ------------------------- claims: SCAMPER ---------------------------- *)
\* the ideas of a session that carry a technique
TaggedCount(session, technique) ==
    Cardinality({k \in DOMAIN session.ideas :
        session.ideas[k].technique = technique})
\* the techniques as a set
Techniques == {SCAMPERTechnique[k] : k \in DOMAIN SCAMPERTechnique}
\* a step changed at most the session at that place
OnlySessionChanged(at) ==
    /\ DOMAIN sessions' = DOMAIN sessions
    /\ \A k \in DOMAIN sessions : k # at => sessions'[k] = sessions[k]

\* C21 as stated: every application of a technique to a session adds
\* exactly one idea record tagged with that technique, so that N
\* applications add exactly N
C21_OneIdeaPerApplication ==
    [][result'.msg = "technique_applied" =>
        \E at \in DOMAIN sessions :
            /\ OnlySessionChanged(at)
            /\ TaggedCount(sessions'[at], result'.technique) =
                   TaggedCount(sessions[at], result'.technique) + 1]_vars

\* C21 amended: every application of a technique to a session adds as
\* many idea records tagged with that technique as idea texts were
\* supplied, and none with another tag, so that N applications add the sum
\* of their idea counts (N when each supplies one idea)
C21_OneIdeaPerSuppliedText ==
    [][result'.msg = "technique_applied" =>
        \E at \in DOMAIN sessions :
            /\ OnlySessionChanged(at)
            /\ \A technique \in Techniques :
                TaggedCount(sessions'[at], technique) =
                    TaggedCount(sessions[at], technique) +
                    (IF technique = result'.technique
                     THEN Len(result'.ideas) ELSE 0)]_vars

\* the notes the applications of a technique left in a session
AppliedNotes(session, technique) ==
    {k \in DOMAIN session.session_notes :
        /\ session.session_notes[k].kind = "applied"
        /\ session.session_notes[k].text = technique}

\* a technique was applied twice to a session, with two ideas and then
\* with none or the reverse, and the session holds two ideas with its tag
C21_Witness ==
    \E k \in DOMAIN sessions, technique \in Techniques :
        /\ Cardinality(AppliedNotes(sessions[k], technique)) = 2
        /\ \E i, j \in AppliedNotes(sessions[k], technique) :
            /\ sessions[k].session_notes[i].n = 2
            /\ sessions[k].session_notes[j].n = 0
        /\ TaggedCount(sessions[k], technique) = 2

\* the technique each accepted name stands for
AcceptedAs(name) ==
    CASE name = "substitute" -> "Substitute"
      [] name = "REVERSE" -> "Reverse"
      [] name = "gyakuten" -> "Reverse"

C23_RefusedApplyChangesNothing ==
    \A id \in SessionIds \cup UnknownIds, technique \in TechniqueArgs,
       ideas \in IdeaArgs :
        (id \notin SessionKeys \/ technique \notin AcceptedArgs) =>
            /\ ENABLED apply_technique(id, technique, ideas,
                                       ideas.explanations)
            /\ ~ENABLED (/\ apply_technique(id, technique, ideas,
                                            ideas.explanations)
                         /\ ~(/\ result'.status = "error"
                              /\ sessions' = sessions))

\* apply_technique has just refused a technique name on a store that
\* holds a session with ideas and an active technique
C23_Witness ==
    /\ result = Err("invalid_technique")
    /\ \E k \in DOMAIN sessions :
        /\ sessions[k].ideas # <<>>
        /\ sessions[k].active_technique # None

\* the evaluations of a list that name a text
NamedBy(idea_evaluations, idea_text) ==
    {j \in DOMAIN idea_evaluations : idea_evaluations[j].idea = idea_text}
\* what evaluate_ideas is to leave of a list of ideas: the first idea of
\* each evaluated text carries the scores of the last evaluation of that
\* text, every other idea and every other field is as before
ScoresAssigned(old, new, idea_evaluations) ==
    /\ Len(new) = Len(old)
    /\ \A k \in DOMAIN old :
        LET named == NamedBy(idea_evaluations, old[k].idea)
            first == \A j \in 1..(k - 1) : old[j].idea # old[k].idea
        IN IF named # {} /\ first
           THEN LET last == CHOOSE j \in named : \A i \in named : i <= j
                IN new[k] = [old[k] EXCEPT
                    !.feasibility_score = idea_evaluations[last].feasibility,
                    !.impact_score = idea_evaluations[last].impact]
           ELSE new[k] = old[k]

\* C24: evaluate_ideas with a list of evaluations writes the supplied
\* feasibility and impact to the first idea, in insertion order, whose
\* text equals an evaluation's text, and to no other: later ideas with
\* the same text and ideas no evaluation names keep their scores. The
\* first conjunct says so of the loop of evaluate_ideas on every stored
\* list of ideas, the second that a call which ran to its last
\* statement left exactly what that loop computes, in one session
C24_FirstExactMatchScored ==
    /\ [](\A k \in DOMAIN sessions :
            \A idea_evaluations \in {l \in EvaluationLists :
                                        \A j \in DOMAIN l : l[j].t = "dict"} :
                ScoresAssigned(sessions[k].ideas,
                    Evaluated(sessions[k].ideas, idea_evaluations),
                    idea_evaluations))
    /\ [][\A at \in DOMAIN sessions :
            (/\ DOMAIN sessions' = DOMAIN sessions
             /\ Len(sessions'[at].session_notes) =
                    Len(sessions[at].session_notes) + 1
             /\ sessions'[at].session_notes[
                    Len(sessions'[at].session_notes)].kind = "evaluated") =>
                /\ OnlySessionChanged(at)
                /\ \E idea_evaluations \in {l \in EvaluationLists :
                                        \A j \in DOMAIN l : l[j].t = "dict"} :
                    /\ sessions'[at].ideas =
                          Evaluated(sessions[at].ideas, idea_evaluations)
                    /\ sessions'[at].session_notes[
                          Len(sessions'[at].session_notes)].n =
                              Len(idea_evaluations)]_vars

\* evaluate_ideas has just scored the first of two ideas with the text A
\* and left the second at its zero scores
C24_Witness ==
    /\ result.msg = "ideas_evaluated"
    /\ \E k \in DOMAIN sessions :
        LET ideas == sessions[k].ideas
        IN /\ Len(ideas) >= 2
           /\ ideas[1].idea = "A" /\ ideas[2].idea = "A"
           /\ ideas[1].feasibility_score = PyInt(3)
           /\ ideas[1].impact_score = PyInt(4)
           /\ ideas[2].feasibility_score = PyInt(0)
           /\ ideas[2].impact_score = PyInt(0)

\* C25: list_sessions shows every stored session once, and a session
\* whose last update (its creation, if it was never updated) is later than
\* another's is listed before it
C25_ListedByLastUpdate ==
    result.msg = "session_list" =>
        /\ Len(result.sessions) = Len(sessions)
        /\ \A k \in DOMAIN sessions :
            \E i \in DOMAIN result.sessions :
                /\ result.sessions[i].id = sessions[k].id
                /\ result.sessions[i].updated_at = sessions[k].updated_at
        /\ \A i, j \in DOMAIN result.sessions :
            result.sessions[i].updated_at > result.sessions[j].updated_at
                => i < j

\* list_sessions has just listed two sessions: the one created first
\* comes first, because a technique was applied to it or its ideas were
\* evaluated after the other one was created
C25_Witness ==
    /\ result.msg = "session_list"
    /\ Len(sessions) = 2
    /\ CallNotes(sessions[1]) > 0
    /\ sessions[1].created_at < sessions[1].updated_at
    /\ sessions[2].updated_at < sessions[1].updated_at
    /\ result.sessions[1].id = sessions[1].id
    /\ result.sessions[2].id = sessions[2].id

\* C26: a call that ends in an error response, returned by the tool or
\* made by the router from an exception, has changed no field of any
\* stored entity
C26_ErrorLeavesStoresUnchanged ==
    [][result'.status \in {"error", "raised"} =>
        UNCHANGED <<analyses, processes, plans, thought_history, branches,
                    sessions, mece_analyses, claim_analyses,
                    bias_analyses>>]_vars


(* -------------------------------- MECE -------------------------------- *)
\* what no MECE call touches
notMece == <<analyses, processes, plans, thought_history, branches, sessions, claim_analyses, bias_analyses>>

\* identifiers uuid4 can produce for MECE analyses
MeceIds == {"m1", "m2"}

\* Texts are written in Latin letters. The keywords of the tables of
\* mece.py that a text contains ("keyword in text.lower()"): a text that
\* is not listed contains itself and nothing else; jinzai is written with
\* the character of hito, soshikikouzou begins with soshiki, and the
\* names of the frameworks carry an English gloss
Keywords(text) ==
    CASE text = "jinzai" -> {"jinzai", "hito"}
      [] text = "soshikikouzou" -> {"soshikikouzou", "soshiki"}
      [] text = "jinteki youin" -> {"hito"}
      [] text = "process youin" -> {"process"}
      [] text = "gijutsu youin" -> {"gijutsu"}
      [] text = "kankyou youin" -> {"kankyou"}
      [] text = "naibu youin" -> {"naibu"}
      [] text = "gaibu youin" -> {"gaibu"}
      [] text = "seihin(Product)" -> {"seihin"}
      [] text = "kakaku(Price)" -> {"kakaku"}
      [] text = "ryuutsuu(Place)" -> {"ryuutsuu"}
      [] text = "promotion(Promotion)" -> {"promotion"}
      [] text = "kokyaku(Customer)" -> {"kokyaku"}
      [] text \in {"kyougou(Competitor)", "jisha(Company)",
                   "tsuyomi(Strengths)", "yowami(Weaknesses)",
                   "kikai(Opportunities)", "kyoui(Threats)",
                   "category A", "category B", "category C", "sonota",
                   "X", "A"} -> {}
      [] OTHER -> {text}
In(keyword, text) == keyword \in Keywords(text)

\* the first element of a list that satisfies a test, as a list of at most
\* one element
RECURSIVE FirstKey(_, _)
FirstKey(keys, text) ==
    IF keys = <<>> THEN <<>>
    ELSE IF In(Head(keys), text) THEN <<Head(keys)>>
    ELSE FirstKey(Tail(keys), text)

\* lines 282-300: the description of a category, by the first key of the
\* dict its name contains
_generate_category_description(category_name, topic) ==
    LET key == FirstKey(<<"senryaku", "soshiki", "process", "gijutsu",
                          "zaimu", "jinzai", "kokyaku", "seihin">>,
                        category_name)
    IN IF key # <<>> THEN <<"description of", key[1]>>
       ELSE <<"aspect of", topic, category_name>>

\* lines 304-312: category_items
category_items(key) ==
    CASE key = "senryaku" -> <<"vision", "mokuhyou", "keikaku", "houshin">>
      [] key = "soshiki" -> <<"soshikizu", "yakuwari", "kengen", "sekinin">>
      [] key = "process" -> <<"tejun", "flow", "rule", "kijun">>
      [] key = "gijutsu" -> <<"system", "tool", "infra", "gijutsuryoku">>
      [] key = "zaimu" -> <<"yosan", "shuueki", "cost", "toushi">>
      [] key = "jinzai" -> <<"skill", "keiken", "motivation", "ninzuu">>
      [] key = "kokyaku" -> <<"needs", "manzokudo", "segment", "koudou">>

\* lines 302-319: the first three items of the first key the name contains
_estimate_category_items(category_name, topic) ==
    LET key == FirstKey(<<"senryaku", "soshiki", "process", "gijutsu",
                          "zaimu", "jinzai", "kokyaku">>, category_name)
    IN IF key # <<>> THEN SubSeq(category_items(key[1]), 1, 3) ELSE <<>>

\* lines 20-26: MECECategory.__init__, then lines 126-133; uuid4 gives
\* every category its own id, here the analysis' id and the place
MECECategory(id, name, topic) ==
    [id |-> id, name |-> name,
     description |-> _generate_category_description(name, topic),
     subcategories |-> <<>>,
     items |-> _estimate_category_items(name, topic),
     parent_id |-> None]

\* lines 121-133
_build_mece_categories(id, topic, original_categories) ==
    [k \in DOMAIN original_categories |->
        MECECategory(<<id, k>>, original_categories[k], topic)]

\* lines 168-203
_check_category_overlap(cat1, cat2) ==
    LET customer_categories ==
            {<<"kizon kokyaku", "shinki kokyaku">>,
             <<"kizon kokyaku", "senzai kokyaku">>,
             <<"shinki kokyaku", "senzai kokyaku">>}
        overlap_keywords ==
            {<<"gijutsu", "technology">>, <<"hito", "jinzai">>,
             <<"soshiki", "team">>, <<"zaimu", "kinyuu">>,
             <<"marketing", "eigyou">>, <<"kokyaku", "client">>}
        Paired(pairs) ==
            \E pair \in pairs :
                \/ In(pair[1], cat1.name) /\ In(pair[2], cat2.name)
                \/ In(pair[2], cat1.name) /\ In(pair[1], cat2.name)
        common_items ==
            {cat1.items[k] : k \in DOMAIN cat1.items} \cap
            {cat2.items[k] : k \in DOMAIN cat2.items}
    IN IF Paired(customer_categories) THEN FALSE
       ELSE IF Paired(overlap_keywords) THEN TRUE
       ELSE Cardinality(common_items) > 1

\* lines 156-166: the pairs of names that overlap, in the order of the
\* two loops
RECURSIVE PairsFrom(_, _, _)
PairsFrom(categories, i, j) ==
    IF i > Len(categories) THEN <<>>
    ELSE IF j > Len(categories) THEN PairsFrom(categories, i + 1, i + 2)
    ELSE (IF _check_category_overlap(categories[i], categories[j])
          THEN <<<<categories[i].name, categories[j].name>>>> ELSE <<>>)
         \o PairsFrom(categories, i, j + 1)
_find_overlaps(categories) == PairsFrom(categories, 1, 2)

\* lines 214-222: common_frameworks, in the order of the dict
common_frameworks ==
    <<<<"jigyou", <<"senryaku", "soshiki", "process", "gijutsu", "zaimu">>>>,
      <<"marketing", <<"seihin", "kakaku", "ryuutsuu", "promotion">>>>,
      <<"soshiki", <<"jinzai", "process", "gijutsu", "soshikikouzou">>>>,
      <<"mondai", <<"hito", "process", "gijutsu", "kankyou">>>>,
      <<"jikan", <<"kako", "genzai", "mirai">>>>,
      <<"kuukan", <<"naibu", "gaibu">>>>,
      <<"kokyaku", <<"kizon kokyaku", "shinki kokyaku",
                     "senzai kokyaku">>>>>>

\* the elements of a list that no category name contains, in order
RECURSIVE Missing(_, _)
Missing(expected_categories, categories) ==
    IF expected_categories = <<>> THEN <<>>
    ELSE (IF \E k \in DOMAIN categories :
                 In(Head(expected_categories), categories[k].name)
          THEN <<>> ELSE <<Head(expected_categories)>>)
         \o Missing(Tail(expected_categories), categories)

\* lines 205-231: at most three missing categories of the first framework
\* the topic names
_find_gaps(topic, categories) ==
    LET applicable == {k \in DOMAIN common_frameworks :
                          In(common_frameworks[k][1], topic)}
    IN IF applicable = {} THEN <<>>
       ELSE LET first == CHOOSE k \in applicable :
                            \A j \in applicable : k <= j
                gaps == Missing(common_frameworks[first][2], categories)
            IN SubSeq(gaps, 1, IF Len(gaps) < 3 THEN Len(gaps) ELSE 3)

\* lines 135-154
violation_type(overlaps, gaps) ==
    IF overlaps # <<>> /\ gaps # <<>> THEN "BOTH"
    ELSE IF overlaps # <<>> THEN "OVERLAP"
    ELSE IF gaps # <<>> THEN "GAP"
    ELSE "NONE"

\* lines 233-253
_generate_improvements(violation, overlaps, gaps) ==
    CASE violation = "OVERLAP" ->
            <<<<"merge or separate">>>> \o
            [k \in DOMAIN overlaps |->
                <<"clarify", overlaps[k][1], overlaps[k][2]>>]
      [] violation = "GAP" ->
            <<<<"add categories">>>> \o
            [k \in DOMAIN gaps |-> <<"consider adding", gaps[k]>>]
      [] violation = "BOTH" -> <<<<"resolve both">>, <<"rebuild">>>>
      [] violation = "NONE" -> <<<<"conforms">>>>

\* lines 321-332
_add_analysis_notes(original_categories, violation) ==
    <<"MECE is effective">> \o
    (IF Len(original_categories) < 3 THEN <<"few categories">>
     ELSE IF Len(original_categories) > 7 THEN <<"many categories">>
     ELSE <<>>) \o
    (IF violation # "NONE" THEN <<"improvement possible">> ELSE <<>>)

\* lines 32-42: MECEAnalysis.__init__, with what the caller fills in
MECEAnalysis(id, topic, categories, built, violation, overlaps, gaps, suggestions, notes, t) ==
    [id |-> id, topic |-> topic, original_categories |-> categories,
     mece_categories |-> built, violation_type |-> violation,
     overlaps |-> overlaps, gaps |-> gaps,
     improvement_suggestions |-> suggestions, analysis_notes |-> notes,
     created_at |-> t]

\* variant: the new analysis is the only one the store keeps
StoredAlone(store, analysis) == [k \in {analysis.id} |-> analysis]

\* lines 69 and 91: self.analyses[analysis.id] = analysis
Stored(store, analysis) == Put(store, analysis.id, analysis)

\* lines 51-72 and 334-378
analyze_categories(id, topic, categories) ==
    /\ id \notin DOMAIN mece_analyses
    /\ \E t \in Times :
        /\ t >= now
        /\ now' = t
        /\ LET built == _build_mece_categories(id, topic, categories)
               overlaps == _find_overlaps(built)
               gaps == _find_gaps(topic, built)
               violation == violation_type(overlaps, gaps)
               analysis == MECEAnalysis(id, topic, categories, built,
                   violation, overlaps, gaps,
                   _generate_improvements(violation, overlaps, gaps),
                   _add_analysis_notes(categories, violation), t)
           IN /\ mece_analyses' = Stored(mece_analyses, analysis)
              /\ result' = [status |-> "ok", msg |-> "mece_analysis",
                            id |-> id, topic |-> topic,
                            categories |-> categories,
                            violation_type |-> violation,
                            overlaps |-> overlaps, gaps |-> gaps,
                            suggestions |-> analysis.improvement_suggestions,
                            notes |-> analysis.analysis_notes]
    /\ UNCHANGED notMece

\* lines 255-280
_suggest_mece_structure(topic, framework) ==
    CASE framework = "4P" ->
            <<"seihin(Product)", "kakaku(Price)", "ryuutsuu(Place)",
              "promotion(Promotion)">>
      [] framework = "3C" ->
            <<"kokyaku(Customer)", "kyougou(Competitor)", "jisha(Company)">>
      [] framework = "SWOT" ->
            <<"tsuyomi(Strengths)", "yowami(Weaknesses)",
              "kikai(Opportunities)", "kyoui(Threats)">>
      [] framework = "jikeiretsu" -> <<"kako", "genzai", "mirai">>
      [] framework = "naigai" -> <<"naibu youin", "gaibu youin">>
      [] OTHER ->
            IF \E word \in {"jigyou", "business", "keiei"} : In(word, topic)
            THEN <<"senryaku", "soshiki", "process", "gijutsu", "zaimu">>
            ELSE IF \E word \in {"marketing", "eigyou"} : In(word, topic)
            THEN <<"seihin", "kakaku", "ryuutsuu", "promotion">>
            ELSE IF \E word \in {"soshiki", "team"} : In(word, topic)
            THEN <<"jinzai", "process", "gijutsu", "soshikikouzou">>
            ELSE IF \E word \in {"mondai", "kadai"} : In(word, topic)
            THEN <<"jinteki youin", "process youin", "gijutsu youin",
                   "kankyou youin">>
            ELSE <<"category A", "category B", "category C", "sonota">>

\* lines 74-119
create_mece_structure(id, topic, framework) ==
    /\ id \notin DOMAIN mece_analyses
    /\ \E t \in Times :
        /\ t >= now
        /\ now' = t
        /\ LET suggested_categories ==
                   _suggest_mece_structure(topic, framework)
               built == _build_mece_categories(id, topic,
                                               suggested_categories)
               analysis == MECEAnalysis(id, topic, suggested_categories,
                   built, "NONE", <<>>, <<>>, <<>>,
                   <<"framework " \o framework>> \o
                       _add_analysis_notes(suggested_categories, "NONE"),
                   t)
           IN /\ mece_analyses' = Stored(mece_analyses, analysis)
              /\ result' = [status |-> "ok", msg |-> "mece_structure",
                            id |-> id, topic |-> topic,
                            framework |-> framework,
                            categories |-> [k \in DOMAIN built |->
                                <<built[k].name, built[k].description,
                                  built[k].items>>],
                            notes |-> analysis.analysis_notes]
    /\ UNCHANGED notMece

\* ---- any sequence of MECE calls
MeceTopics == {"jigyou", "X"}
\* two names of one keyword pair; the five categories of a business; one
\* category
CategoryLists ==
    {<<"gijutsu", "technology">>,
     <<"senryaku", "soshiki", "process", "gijutsu", "zaimu">>,
     <<"A">>}
Frameworks == {"auto", "3C", "jikeiretsu"}

MeceAnalyze ==
    /\ \E id \in MeceIds, topic \in MeceTopics, categories \in CategoryLists :
        analyze_categories(id, topic, categories)
    /\ UNCHANGED script
MeceCreate ==
    /\ \E id \in MeceIds, topic \in MeceTopics, framework \in Frameworks :
        create_mece_structure(id, topic, framework)
    /\ UNCHANGED script

NextMece ==
    \/ MeceAnalyze
    \/ MeceCreate

SpecMece == Init /\ [][NextMece]_vars


(* --------------------------- claims: MECE ----------------------------- *)
\* C29: every analyze_categories and create_mece_structure call stores
\* exactly one new analysis under an id that was no key, and leaves every
\* analysis stored before as it was
C29_OneNewAnalysisPerCall ==
    [][\E id \in MeceIds :
        /\ id \notin DOMAIN mece_analyses
        /\ DOMAIN mece_analyses' = DOMAIN mece_analyses \cup {id}
        /\ mece_analyses'[id].id = id
        /\ result'.id = id
        /\ \A k \in DOMAIN mece_analyses :
            mece_analyses'[k] = mece_analyses[k]]_vars

\* create_mece_structure has just stored a second analysis next to one
\* analyze_categories made, which found an overlap
C29_Witness ==
    /\ result.msg = "mece_structure"
    /\ DOMAIN mece_analyses = MeceIds
    /\ \E k \in MeceIds :
        /\ k # result.id
        /\ mece_analyses[k].violation_type = "OVERLAP"
        /\ mece_analyses[k].overlaps = <<<<"gijutsu", "technology">>>>


(* -------------------------- critical thinking ------------------------- *)
\* what no critical-thinking call touches
notCritical == <<analyses, processes, plans, thought_history, branches,
                 sessions, mece_analyses>>

\* most analyses the model lets each store of CriticalThinking hold
MaxAnalyses == 2

\* str(n) for the sizes the stores reach
PyStrOfInt(n) ==
    CASE n = 1 -> "1" [] n = 2 -> "2" [] n = 3 -> "3" [] n = 4 -> "4"

\* a claim, a source or a content is the set of the words of the tables of
\* critical.py it contains, written in Latin letters; no source (None or
\* the empty text) is NoSource
NoSource == [given |-> FALSE, words |-> {}]
Source(words) == [given |-> TRUE, words |-> words]

\* lines 180-197
_classify_source(source) ==
    IF ~source.given THEN "UNKNOWN"
    ELSE IF source.words \cap {"ac.jp", "edu", "arxiv", "pubmed"} # {}
    THEN "ACADEMIC"
    ELSE IF source.words \cap {"twitter", "facebook", "instagram"} # {}
    THEN "SOCIAL_MEDIA"
    ELSE IF source.words \cap {"gov", "shou", "chou"} # {}
    THEN "GOVERNMENT"
    ELSE IF source.words \cap {"news", "times", "post", "shinbun"} # {}
    THEN "NEWS_MEDIA"
    ELSE IF source.words \cap {"blog", "note", "qiita"} # {}
    THEN "PERSONAL_BLOG"
    ELSE "CORPORATE"

\* lines 202-206
Strengths(claim) ==
    (IF claim \cap {"kenkyuu", "data", "toukei"} # {}
     THEN <<"based on research or data">> ELSE <<>>) \o
    (IF claim \cap {"senmonka", "kyouju"} # {}
     THEN <<"presented as expert opinion">> ELSE <<>>)

\* lines 208-214
Weaknesses(claim) ==
    (IF claim \cap {"minna", "daredemo", "tsuneni"} # {}
     THEN <<"overgeneralisation">> ELSE <<>>) \o
    (IF claim \cap {"zettai", "machigainaku"} # {}
     THEN <<"too assertive">> ELSE <<>>) \o
    (IF claim \cap {"to omou", "to kanjiru"} # {}
     THEN <<"subjective">> ELSE <<>>)

\* lines 223-246
_assess_reliability(source_type, strengths, weaknesses) ==
    LET score ==
            (CASE source_type = "ACADEMIC" -> 3
               [] source_type = "GOVERNMENT" -> 2
               [] source_type = "NEWS_MEDIA" -> 1
               [] source_type = "SOCIAL_MEDIA" -> 0 - 1
               [] OTHER -> 0)
            + Len(strengths) - Len(weaknesses)
    IN IF score >= 3 THEN "HIGH" ELSE IF score >= 1 THEN "MEDIUM" ELSE "LOW"

\* lines 44-54: ClaimAnalysis.__init__, with what analyze_claim fills in
ClaimAnalysis(claim, source, t) ==
    LET source_type == _classify_source(source)
    IN [claim |-> claim, source |-> source,
        reliability_level |-> _assess_reliability(source_type,
            Strengths(claim), Weaknesses(claim)),
        source_type |-> source_type,
        strengths |-> Strengths(claim), weaknesses |-> Weaknesses(claim),
        questions_to_consider |-> <<"evidence", "other readings",
                                    "interests", "other sources">>,
        supporting_evidence |-> <<>>, contradicting_evidence |-> <<>>,
        analyzed_at |-> t]

\* lines 76-126
analyze_claim(claim, source) ==
    /\ Cardinality(DOMAIN claim_analyses) < MaxAnalyses
    /\ \E t \in Times :
        /\ t >= now
        /\ now' = t
        /\ LET analysis == ClaimAnalysis(claim, source, t)
               analysis_id ==
                   PyStrOfInt(Cardinality(DOMAIN claim_analyses) + 1)
           IN /\ claim_analyses' = Put(claim_analyses, analysis_id, analysis)
              /\ result' = [status |-> "ok", msg |-> "claim_analysis",
                            id |-> analysis_id, claim |-> claim,
                            source |-> source,
                            source_type |-> analysis.source_type,
                            reliability_level |-> analysis.reliability_level,
                            strengths |-> analysis.strengths,
                            weaknesses |-> analysis.weaknesses,
                            questions |-> analysis.questions_to_consider]
    /\ UNCHANGED bias_analyses
    /\ UNCHANGED notCritical

\* lines 248-266: the biases found, in the order of the tests
_identify_biases(content) ==
    (IF content \cap {"yappari", "touzen"} # {}
     THEN <<"CONFIRMATION">> ELSE <<>>) \o
    (IF content \cap {"senmonka ga iu kara", "yuumeijin ga"} # {}
     THEN <<"AUTHORITY">> ELSE <<>>) \o
    (IF content \cap {"minna ga", "hayari"} # {}
     THEN <<"BANDWAGON">> ELSE <<>>)

\* lines 268-276
_identify_logical_fallacies(content) ==
    (IF content \cap {"a ka b ka shika nai", "shiro ka kuro ka"} # {}
     THEN <<"false dilemma">> ELSE <<>>) \o
    (IF "dakara" \in content /\ "subete" \in content
     THEN <<"hasty generalisation">> ELSE <<>>)

\* lines 278-288
_generate_recommendations(identified_biases, logical_fallacies) ==
    IF identified_biases # <<>> \/ logical_fallacies # <<>>
    THEN <<"seek opposing views", "several sources", "suspend judgement",
           "objective evidence">>
    ELSE <<"balanced">>

\* lines 60-66: BiasAnalysis.__init__, with what identify_bias fills in;
\* every bias found has its explanation
BiasAnalysis(content, t) ==
    [content |-> content,
     identified_biases |-> _identify_biases(content),
     bias_explanations |-> _identify_biases(content),
     logical_fallacies |-> _identify_logical_fallacies(content),
     recommendations |-> _generate_recommendations(
         _identify_biases(content), _identify_logical_fallacies(content)),
     analyzed_at |-> t]

\* lines 128-178
identify_bias(content) ==
    /\ Cardinality(DOMAIN bias_analyses) < MaxAnalyses
    /\ \E t \in Times :
        /\ t >= now
        /\ now' = t
        /\ LET analysis == BiasAnalysis(content, t)
               analysis_id ==
                   PyStrOfInt(Cardinality(DOMAIN bias_analyses) + 1)
           IN /\ bias_analyses' = Put(bias_analyses, analysis_id, analysis)
              /\ result' = [status |-> "ok", msg |-> "bias_analysis",
                            id |-> analysis_id,
                            biases |-> analysis.identified_biases,
                            fallacies |-> analysis.logical_fallacies,
                            recommendations |-> analysis.recommendations]
    /\ UNCHANGED claim_analyses
    /\ UNCHANGED notCritical


\* ---- the create and start calls of every keyed store
\* the claims, sources and contents callers pass
ClaimTexts == {{}, {"kenkyuu"}, {"zettai", "minna"}}
Sources == {NoSource, Source({"edu"}), Source({"twitter"})}
BiasContents == {{}, {"yappari"}, {"dakara", "subete"}}
\* the eight-character tokens start_analysis can draw, whether the store
\* holds them or not
ShortTokens == {"w1", "w2"}
\* most entities the model lets the stores hold, over all stores
MaxEntities == 2
TotalEntities ==
    Cardinality(DOMAIN analyses) + Cardinality(DOMAIN processes) +
    Cardinality(DOMAIN plans) + Len(sessions) +
    Cardinality(DOMAIN mece_analyses) +
    Cardinality(DOMAIN claim_analyses) + Cardinality(DOMAIN bias_analyses)

CriticalAnalyze ==
    /\ \E claim \in ClaimTexts, source \in Sources :
        analyze_claim(claim, source)
    /\ UNCHANGED script
CriticalBias ==
    /\ \E content \in BiasContents : identify_bias(content)
    /\ UNCHANGED script

StoresWhy ==
    /\ TotalEntities < MaxEntities
    /\ \E id \in ShortTokens, problem \in Problems, context \in Contexts :
        start_analysis(id, problem, context)
    /\ UNCHANGED script
StoresDialectical ==
    /\ TotalEntities < MaxEntities
    /\ DialecticalStart
StoresStepwise ==
    /\ TotalEntities < MaxEntities
    /\ StepwiseCreate
StoresScamperStart ==
    /\ TotalEntities < MaxEntities
    /\ ScamperStart
StoresScamperGenerate ==
    /\ TotalEntities < MaxEntities
    /\ ScamperGenerate
StoresMeceAnalyze ==
    /\ TotalEntities < MaxEntities
    /\ MeceAnalyze
StoresMeceCreate ==
    /\ TotalEntities < MaxEntities
    /\ MeceCreate
StoresClaim ==
    /\ TotalEntities < MaxEntities
    /\ CriticalAnalyze
StoresBias ==
    /\ TotalEntities < MaxEntities
    /\ CriticalBias

NextStores ==
    \/ StoresWhy
    \/ StoresDialectical
    \/ StoresStepwise
    \/ StoresScamperStart
    \/ StoresScamperGenerate
    \/ StoresMeceAnalyze
    \/ StoresMeceCreate
    \/ StoresClaim
    \/ StoresBias

SpecStores == Init /\ [][NextStores]_vars

(* --------------------------- claims: stores --------------------------- *)
\* every entry of a keyed store is in the store after the step, unchanged
Kept(store, after) ==
    \A k \in DOMAIN store : k \in DOMAIN after /\ after[k] = store[k]

\* C27: each create or start call adds exactly one new key to its store
\* and replaces or removes no entry of any store, so that no identifier
\* is used twice and a store holds as many entries as calls created
C27_StoresGrowOnly ==
    [][/\ Kept(analyses, analyses')
       /\ Kept(processes, processes')
       /\ Kept(plans, plans')
       /\ Kept(mece_analyses, mece_analyses')
       /\ Kept(claim_analyses, claim_analyses')
       /\ Kept(bias_analyses, bias_analyses')
       /\ Len(sessions') >= Len(sessions)
       /\ SubSeq(sessions', 1, Len(sessions)) = sessions
       /\ \A i, j \in DOMAIN sessions' :
            sessions'[i].id = sessions'[j].id => i = j
       /\ TotalEntities' = TotalEntities + 1]_vars


(* ============================== the router ============================ *)
\* server.py lines 39-593: the names of the registered tools
ToolNames ==
    {"sequential_thinking", "stepwise_create_plan", "stepwise_execute_step",
     "critical_analyze_claim", "critical_identify_bias",
     "logical_build_argument", "logical_find_causality",
     "why_analysis_start", "why_analysis_add_answer", "why_analysis_get",
     "why_analysis_list", "mece_analyze_categories", "mece_create_structure",
     "dialectical_start_process", "dialectical_set_thesis",
     "dialectical_set_antithesis", "dialectical_create_synthesis",
     "dialectical_analyze_contradiction", "dialectical_get_process",
     "dialectical_list_processes", "scamper_start_session",
     "scamper_apply_technique", "scamper_evaluate_ideas",
     "scamper_get_session", "scamper_list_sessions",
     "scamper_generate_comprehensive"}
\* a name no branch of the router compares with
UnknownNames == {"no_such_tool"}
\* the branches of the router the model follows into their tool
RoutedNames ==
    {"why_analysis_start", "why_analysis_add_answer",
     "critical_analyze_claim", "sequential_thinking",
     "scamper_start_session", "scamper_apply_technique",
     "scamper_evaluate_ideas"}

\* the prefix of the text of line 726: the Japanese word for error, a
\* colon and a space
ErrorMarker == "Error: "
NoMarker == ""
\* lines 722 and 726: the item of the returned list
TextItem(marker, body) ==
    [type |-> "text", text |-> [marker |-> marker, body |-> body]]

\* a handler that lets every class but ValueError through
CaughtValueErrorOnly(class) == class = "ValueError"
\* line 724, `except Exception`: the classes the dispatch and the tools
\* raise are subclasses of Exception (KeyError and IndexError through
\* LookupError)
ExceptionSubclasses ==
    {"ValueError", "TypeError", "KeyError", "AttributeError", "IndexError"}
Caught(class) == class \in ExceptionSubclasses

\* lines 722-726: what the caller of handle_call_tool gets for the outcome
\* of the dispatch: the returned list, or the exception that left the
\* function
Response(name, outcome) ==
    IF outcome.status # "raised"
    THEN [pc |-> 0, name |-> name,
          returned |-> <<TextItem(NoMarker, outcome)>>, propagated |-> None]
    ELSE IF Caught(outcome.msg)
    THEN [pc |-> 0, name |-> name,
          returned |-> <<TextItem(ErrorMarker, outcome.msg)>>,
          propagated |-> None]
    ELSE [pc |-> 0, name |-> name, returned |-> <<>>,
          propagated |-> outcome.msg]

\* an exception raised by the dispatch itself: no tool has run
Throw(class) ==
    /\ result' = Raised(class)
    /\ UNCHANGED <<analyses, processes, now, plans, thought_history,
                   branches, sessions, mece_analyses, claim_analyses,
                   bias_analyses>>

\* arguments[key] raises KeyError for a key the map lacks
Lacks(arguments, keys) == ~(keys \subseteq DOMAIN arguments)
\* arguments.get(key)
Get(arguments, key, default) ==
    IF key \in DOMAIN arguments THEN arguments[key] ELSE default

\* lines 602-720: the branch of the name, its subscripts evaluated before
\* the call
Dispatch(name, arguments) ==
    IF name = "critical_analyze_claim"
    THEN IF Lacks(arguments, {"claim"})
         THEN Throw("KeyError")
         ELSE analyze_claim(arguments.claim,
                            Get(arguments, "source", NoSource))
    ELSE IF name = "why_analysis_start"
    THEN IF Lacks(arguments, {"problem"})
         THEN Throw("KeyError")
         ELSE \E id \in AnalysisIds \ DOMAIN analyses :
                 start_analysis(id, arguments.problem,
                                Get(arguments, "context", None))
    ELSE IF name = "why_analysis_add_answer"
    THEN IF Lacks(arguments, {"analysis_id", "level", "answer"})
         THEN Throw("KeyError")
         ELSE add_answer(arguments.analysis_id, arguments.level,
                         arguments.answer)
    ELSE IF name = "sequential_thinking"
    THEN process_thought(arguments)
    ELSE IF name = "scamper_start_session"
    THEN IF Lacks(arguments, {"topic", "current_situation"})
         THEN Throw("KeyError")
         ELSE \E id \in StartIds :
                 start_session(id, arguments.topic,
                               arguments.current_situation,
                               Get(arguments, "context", None))
    ELSE IF name = "scamper_apply_technique"
    THEN IF Lacks(arguments, {"session_id", "technique", "ideas"})
         THEN Throw("KeyError")
         ELSE apply_technique(arguments.session_id, arguments.technique,
                              arguments.ideas,
                              Get(arguments, "explanations", <<>>))
    ELSE IF name = "scamper_evaluate_ideas"
    THEN IF Lacks(arguments, {"session_id", "idea_evaluations"})
         THEN Throw("KeyError")
         ELSE evaluate_ideas(arguments.session_id,
                             arguments.idea_evaluations)
    ELSE \* line 720
         Throw("ValueError")

\* lines 599-726
handle_call_tool(name, arguments) ==
    /\ Dispatch(name, arguments)
    /\ script' = Response(name, result')

\* the argument map without keys
NoArguments == [k \in {} |-> None]
\* calls whose argument map has every required key: values of the
\* declared types, and an ideas value and evaluation lists of other types
CompleteCalls ==
    {<<"critical_analyze_claim", [claim |-> {"kenkyuu"}]>>,
     <<"why_analysis_start", [problem |-> "P"]>>,
     <<"why_analysis_add_answer",
       [analysis_id |-> "w1", level |-> 0, answer |-> "A"]>>,
     <<"why_analysis_add_answer",
       [analysis_id |-> "w1", level |-> 0 - 3, answer |-> "A"]>>,
     <<"sequential_thinking", BaseThought>>,
     <<"sequential_thinking", [BaseThought EXCEPT !.thought = PyNone]>>,
     <<"scamper_start_session", [topic |-> "X", current_situation |-> "S"]>>,
     <<"scamper_apply_technique",
       [session_id |-> "c1", technique |-> "substitute",
        ideas |-> [t |-> "list", v |-> <<"A">>]]>>,
     <<"scamper_apply_technique",
       [session_id |-> "c1", technique |-> "substitute",
        ideas |-> [t |-> "none", v |-> <<>>]]>>,
     <<"scamper_evaluate_ideas",
       [session_id |-> "c1",
        idea_evaluations |-> <<Evaluation("A", PyStr("high"), PyInt(1))>>]>>,
     <<"scamper_evaluate_ideas",
       [session_id |-> "c1",
        idea_evaluations |-> <<Evaluation("A", PyInt(5), PyInt(5)),
                               NotADict>>]>>}
\* calls whose argument map lacks a required key
IncompleteCalls ==
    {<<"critical_analyze_claim", [source |-> Source({"edu"})]>>,
     <<"why_analysis_start", NoArguments>>,
     <<"why_analysis_add_answer", [analysis_id |-> "w1", level |-> 0]>>,
     <<"scamper_start_session", [topic |-> "X"]>>,
     <<"scamper_apply_technique",
       [session_id |-> "c1", technique |-> "substitute"]>>,
     <<"scamper_evaluate_ideas", [session_id |-> "c1"]>>}

RouterCall ==
    \E call \in CompleteCalls : handle_call_tool(call[1], call[2])
RouterIncomplete ==
    \E call \in IncompleteCalls : handle_call_tool(call[1], call[2])
RouterUnknown ==
    \E name \in UnknownNames, arguments \in {NoArguments, BaseThought} :
        handle_call_tool(name, arguments)

NextRouter ==
    \/ RouterCall
    \/ RouterIncomplete
    \/ RouterUnknown

SpecRouter == Init /\ [][NextRouter]_vars

(* --------------------------- claims: router --------------------------- *)
\* the router has answered a call
RouterAnswered == "name" \in DOMAIN script

\* C28: for every tool name, known or unknown, and every argument map,
\* handle_call_tool returns a list of exactly one text item and no
\* exception leaves it; when the name is unknown, or the dispatch or the
\* tool raised, the text starts with the error marker.
C28_RouterReturnsOneTextItem ==
    RouterAnswered =>
        /\ script.propagated = None
        /\ Len(script.returned) = 1
        /\ script.returned[1].type = "text"
        /\ (script.name \notin ToolNames \/ result.status = "raised") =>
              script.returned[1].text.marker = ErrorMarker

\* apply_technique raised TypeError on a session of the store, and the
\* router answered with the error text
C28_Witness ==
    /\ RouterAnswered
    /\ script.name = "scamper_apply_technique"
    /\ sessions # <<>>
    /\ result = Raised("TypeError")
    /\ script.returned = <<TextItem(ErrorMarker, "TypeError")>>


(* ========================== the read operations ======================= *)
\* a lookup that stores an empty analysis under a key it does not find
get_analysisStoring(analysis_id) ==
    /\ IF analysis_id \notin DOMAIN analyses
       THEN /\ result' = Err("analysis_not_found")
            /\ analyses' = Put(analyses, analysis_id,
                   [id |-> analysis_id, problem |-> None, context |-> None,
                    whys |-> <<>>, created_at |-> now, status |-> "active"])
       ELSE /\ result' = Ok("analysis_status")
            /\ UNCHANGED analyses
    /\ UNCHANGED <<now, notWhy>>

\* why_analysis.py lines 144-163: the answers given, and the fifth as the
\* root cause
_generate_summary(analysis) ==
    [problem |-> analysis.problem,
     path |-> [i \in {j \in DOMAIN analysis.whys :
                        analysis.whys[j].answer \notin {None, ""}} |->
                  analysis.whys[i].answer],
     root_cause |-> IF /\ Len(analysis.whys) >= 5
                       /\ analysis.whys[5].answer \notin {None, ""}
                    THEN analysis.whys[5].answer
                    ELSE None]

\* why_analysis.py lines 108-142
get_analysis(analysis_id) ==
    /\ IF analysis_id \notin DOMAIN analyses
       THEN result' = Err("analysis_not_found")
       ELSE LET analysis == analyses[analysis_id]
            IN result' =
                [status |-> "ok", msg |-> "analysis_status",
                 id |-> analysis.id, problem |-> analysis.problem,
                 context |-> IF analysis.context \in {None, ""}
                             THEN None ELSE analysis.context,
                 state |-> analysis.status,
                 created_at |-> analysis.created_at,
                 whys |-> [i \in DOMAIN analysis.whys |->
                     [question |-> analysis.whys[i].question,
                      answer |-> IF analysis.whys[i].answer \in {None, ""}
                                 THEN None
                                 ELSE analysis.whys[i].answer]],
                 summary |-> IF analysis.status = "completed"
                             THEN <<_generate_summary(analysis)>>
                             ELSE <<>>]
    /\ UNCHANGED <<analyses, now, notWhy>>

\* why_analysis.py lines 166-185; the entries by their key
list_analyses ==
    /\ result' =
        IF DOMAIN analyses = {}
        THEN [status |-> "ok", msg |-> "no_analyses",
              entries |-> [k \in {} |-> None]]
        ELSE [status |-> "ok", msg |-> "analysis_list",
              entries |-> [k \in DOMAIN analyses |->
                 [completed |-> analyses[k].status = "completed",
                  problem |-> analyses[k].problem,
                  answered_count |-> Cardinality(
                      {i \in DOMAIN analyses[k].whys :
                          analyses[k].whys[i].answer # None}),
                  total_count |-> Len(analyses[k].whys),
                  created_at |-> analyses[k].created_at]]]
    /\ UNCHANGED <<analyses, now, notWhy>>

\* dialectical.py lines 212-230; the entries by their key
list_processes ==
    /\ result' =
        IF DOMAIN processes = {}
        THEN [status |-> "ok", msg |-> "no_processes", count |-> 0,
              entries |-> [k \in {} |-> None]]
        ELSE [status |-> "ok", msg |-> "process_list",
              count |-> Cardinality(DOMAIN processes),
              entries |-> [k \in DOMAIN processes |->
                 [id |-> processes[k].id, topic |-> processes[k].topic,
                  completed |-> processes[k].completed_at # NoTime,
                  created_at |-> processes[k].created_at,
                  completed_at |-> processes[k].completed_at]]]
    /\ UNCHANGED <<processes, now, notDialectical>>

\* ---- a caller that reads between the calls that change the stores, and
\* remembers the first read it made since the last change
ReadOps ==
    {"get_process", "list_processes", "get_analysis", "list_analyses",
     "get_session", "list_sessions"}
NoRead == [op |-> None, id |-> None, result |-> Ok(None)]
Mutated ==
    [pc |-> 0, op |-> "mutation", id |-> None, first |-> NoRead,
     repeated |-> FALSE]
FirstRead == IF "first" \in DOMAIN script THEN script.first ELSE NoRead
Remembered(op, id, outcome) ==
    [pc |-> 0, op |-> op, id |-> id,
     first |-> IF FirstRead.op = None
               THEN [op |-> op, id |-> id, result |-> outcome]
               ELSE FirstRead,
     repeated |-> FirstRead.op = op /\ FirstRead.id = id]

ReadsWhyStart ==
    /\ \E id \in AnalysisIds \ DOMAIN analyses :
          start_analysis(id, "P", "C")
    /\ script' = Mutated
\* the calls after a start come within the instant of the one before
ReadsWhyAnswer ==
    /\ \E id \in AnalysisIds, level \in 0..4 : add_answer(id, level, "A")
    /\ result'.status = "ok"
    /\ now' = now
    /\ script' = Mutated
ReadsDialecticalStart ==
    /\ \E id \in ProcessIds : start_dialectical_process(id, "X", None)
    /\ script' = Mutated
ReadsDialecticalThesis ==
    /\ \E id \in DOMAIN processes :
          /\ processes[id].thesis = NoPosition
          /\ set_thesis(id, "A", <<>>)
    /\ now' = now
    /\ script' = Mutated
ReadsDialecticalAntithesis ==
    /\ \E id \in DOMAIN processes :
          /\ processes[id].antithesis = NoPosition
          /\ set_antithesis(id, "B", <<>>)
    /\ result'.status = "ok"
    /\ now' = now
    /\ script' = Mutated
ReadsDialecticalSynthesis ==
    /\ \E id \in DOMAIN processes :
          /\ processes[id].synthesis = NoPosition
          /\ create_synthesis(id, "A", None)
    /\ result'.status = "ok"
    /\ now' = now
    /\ script' = Mutated
ReadsScamperStart ==
    /\ \E id \in StartIds \ SessionKeys : start_session(id, "X", "S", None)
    /\ script' = Mutated
ReadsScamperApply ==
    /\ \E id \in SessionKeys :
          /\ sessions[SessionAt(id)].ideas = <<>>
          /\ apply_technique(id, "substitute",
                             [t |-> "list", v |-> <<"A">>], <<>>)
    /\ now' = now
    /\ script' = Mutated

ReadsGetProcess ==
    \E id \in ProcessIds \cup UnknownIds :
        /\ get_process(id)
        /\ script' = Remembered("get_process", id, result')
ReadsListProcesses ==
    /\ list_processes
    /\ script' = Remembered("list_processes", None, result')
ReadsGetAnalysis ==
    \E id \in AnalysisIds \cup UnknownIds :
        /\ get_analysis(id)
        /\ script' = Remembered("get_analysis", id, result')
ReadsListAnalyses ==
    /\ list_analyses
    /\ script' = Remembered("list_analyses", None, result')
ReadsGetSession ==
    \E id \in StartIds \cup UnknownIds :
        /\ get_session(id)
        /\ script' = Remembered("get_session", id, result')
ReadsListSessions ==
    /\ list_sessions
    /\ script' = Remembered("list_sessions", None, result')

NextReads ==
    \/ ReadsWhyStart
    \/ ReadsWhyAnswer
    \/ ReadsDialecticalStart
    \/ ReadsDialecticalThesis
    \/ ReadsDialecticalAntithesis
    \/ ReadsDialecticalSynthesis
    \/ ReadsScamperStart
    \/ ReadsScamperApply
    \/ ReadsGetProcess
    \/ ReadsListProcesses
    \/ ReadsGetAnalysis
    \/ ReadsListAnalyses
    \/ ReadsGetSession
    \/ ReadsListSessions

SpecReads == Init /\ [][NextReads]_vars

(* ---------------------------- claims: reads --------------------------- *)
\* C30: get_process, list_processes, get_analysis, list_analyses,
\* get_session and list_sessions, found or not found, leave every store
\* and every entity as it was; a read repeated with no change of the
\* stores in between, other reads allowed, returns what it returned the
\* first time.
C30_ReadsArePure ==
    [][script'.op \in ReadOps =>
        /\ UNCHANGED <<analyses, processes, plans, thought_history,
                       branches, sessions, mece_analyses, claim_analyses,
                       bias_analyses>>
        /\ script'.repeated => result' = script'.first.result]_vars

\* get_session was read again with no change of the stores since its
\* first read, on a session that holds an idea, next to a completed
\* process and an answered analysis
C30_Witness ==
    /\ "op" \in DOMAIN script
    /\ script.op = "get_session"
    /\ script.repeated
    /\ result = script.first.result
    /\ script.first.result.status = "ok"
    /\ sessions # <<>>
    /\ Len(sessions[1].ideas) = 1
    /\ \E id \in DOMAIN processes : processes[id].completed_at # NoTime
    /\ \E id \in DOMAIN analyses : Len(analyses[id].whys) > 1


(* ----------------------- claims: stepwise order ----------------------- *)
\* the steps of the plan that are pending
PendingSteps(steps) == {i \in 1..Len(steps) : steps[i].status = "pending"}

\* C32: execute_step for step N is rejected while a step of the same plan
\* with a lower number is still pending: no step changes while a
\* lower-numbered step of its plan is pending.
C32_StepsAdvanceInOrder ==
    [][\A id \in DOMAIN plans \cap DOMAIN plans' :
          \A i \in 1..Len(plans[id].steps) :
             plans'[id].steps[i] # plans[id].steps[i]
             => \A j \in PendingSteps(plans[id].steps) :
                   plans[id].steps[j].number >= plans[id].steps[i].number]_vars

\* C33: every step's status is pending or completed, never in_progress or
\* failed; a step's result is null exactly while its status is pending;
\* and no operation moves a step from completed back to pending.
C33_StepPendingOrCompleted ==
    /\ [](\A id \in DOMAIN plans : \A i \in 1..Len(plans[id].steps) :
            /\ plans[id].steps[i].status \in {"pending", "completed"}
            /\ plans[id].steps[i].result = None
               <=> plans[id].steps[i].status = "pending")
    /\ [][\A id \in DOMAIN plans : \A i \in 1..Len(plans[id].steps) :
            plans[id].steps[i].status = "completed"
            => /\ id \in DOMAIN plans'
               /\ plans'[id].steps[i].status = "completed"]_vars

\* step 2 was executed with B at the later instant while step 1 is pending
C33_Witness ==
    /\ result.msg = "step_completed" /\ result.step_number = 2
    /\ \E id \in DOMAIN plans :
          /\ plans[id].steps[2].status = "completed"
          /\ plans[id].steps[2].result = "B"
          /\ plans[id].steps[2].completed_at = 1
          /\ plans[id].created_at = 0
          /\ plans[id].steps[1].status = "pending"
          /\ plans[id].steps[1].result = None

\* C34: when execute_step succeeds and a step of the plan is pending, the
\* response names as next step the pending step that comes first in the
\* plan's order, the lowest-numbered pending one, and shows no summary;
\* when no step is pending it shows the summary of all steps and no next
\* step.
C34_NextIsFirstPending ==
    [][result'.msg = "step_completed" =>
        \E id \in DOMAIN plans' :
            LET steps == plans'[id].steps
                pending == PendingSteps(steps)
            IN /\ steps[target_step(steps, result'.step_number)].result
                     = result'.result
               /\ IF pending # {}
                  THEN /\ result'.next \in pending
                       /\ \A j \in pending :
                            /\ result'.next <= j
                            /\ steps[result'.next].number <= steps[j].number
                       /\ ~result'.summary
                  ELSE /\ result'.next = 0
                       /\ result'.summary
                       /\ result'.completed_steps = Len(steps)]_vars

\* step 3 was executed after step 4 and the response names step 1 as the
\* next one
C34_Witness ==
    /\ result.msg = "step_completed" /\ result.step_number = 3
    /\ result.next = 1
    /\ result.completed_steps = 2
    /\ \E id \in DOMAIN plans : plans[id].steps[4].status = "completed"


(* --------------------- claims: dialectical sequencer ------------------ *)
\* the earliest position of the process that is unset
EarliestUnset(process) ==
    IF process.thesis = NoPosition THEN "thesis"
    ELSE IF process.antithesis = NoPosition THEN "antithesis"
    ELSE IF process.synthesis = NoPosition THEN "synthesis"
    ELSE "none"

\* C35: the next-step hint of get_process depends only on which positions
\* are set and names the earliest unset one (set_thesis, else
\* set_antithesis, else create_synthesis, else completed); in every
\* reachable state the operation the hint names succeeds when called next.
C35_HintNamesAcceptedOperation ==
    /\ [](\A id \in DOMAIN processes :
            LET hint == NextStep(processes[id])
            IN /\ hint = "dialectical_set_thesis" =>
                    \A text \in Texts, evidence \in Evidences :
                        ENABLED (/\ set_thesis(id, text, evidence)
                                 /\ result'.status = "ok")
               /\ hint = "dialectical_set_antithesis" =>
                    \A text \in Texts, evidence \in Evidences :
                        ENABLED (/\ set_antithesis(id, text, evidence)
                                 /\ result'.status = "ok")
               /\ hint = "dialectical_create_synthesis" =>
                    \A text \in Texts, reasoning \in Reasonings :
                        ENABLED (/\ create_synthesis(id, text, reasoning)
                                 /\ result'.status = "ok"))
    /\ [][result'.msg = "process_status" =>
            \E id \in DOMAIN processes :
                LET unset == EarliestUnset(processes[id])
                IN /\ processes'[id] = processes[id]
                   /\ result'.thesis = Shown(processes[id].thesis)
                   /\ result'.antithesis = Shown(processes[id].antithesis)
                   /\ result'.synthesis = Shown(processes[id].synthesis)
                   /\ unset = "thesis" =>
                        result'.next = "dialectical_set_thesis"
                   /\ unset = "antithesis" =>
                        result'.next = "dialectical_set_antithesis"
                   /\ unset = "synthesis" =>
                        result'.next = "dialectical_create_synthesis"
                   /\ unset = "none" => result'.next = "completed"]_vars

\* get_process named set_antithesis for a process whose thesis was set
C35_Witness ==
    /\ result.status = "ok" /\ result.msg = "process_status"
    /\ result.next = "dialectical_set_antithesis"
    /\ result.thesis = "B"
    /\ \E id \in DOMAIN processes : processes[id].thesis.content = "B"

\* list_processes next to the dialectical calls
DialecticalList ==
    /\ list_processes
    /\ UNCHANGED script

NextListing ==
    \/ DialecticalStart
    \/ DialecticalThesis
    \/ DialecticalAntithesis
    \/ DialecticalSynthesis
    \/ DialecticalGet
    \/ DialecticalList

SpecListing == Init /\ [][NextListing]_vars

\* C36: a process's completed_at is non-null if and only if its synthesis
\* is set; list_processes reports a process as completed exactly when all
\* three of its positions are set, which is when get_process shows them
\* all.
C36_CompletedIffSynthesis ==
    /\ [](\A id \in DOMAIN processes :
            processes[id].completed_at # NoTime
            <=> processes[id].synthesis # NoPosition)
    /\ [][result'.msg = "process_list" =>
            \A id \in DOMAIN processes :
                result'.entries[id].completed
                <=> /\ Shown(processes[id].thesis) # None
                    /\ Shown(processes[id].antithesis) # None
                    /\ Shown(processes[id].synthesis) # None]_vars

\* list_processes reported a completed process whose antithesis was set
\* again after the synthesis
C36_Witness ==
    /\ result.msg = "process_list"
    /\ \E id \in DOMAIN processes :
          /\ result.entries[id].completed
          /\ processes[id].completed_at = 0
          /\ processes[id].antithesis.created_at = 1


(* ------------------------ claims: 5-Why sequence ---------------------- *)
\* C37: start_analysis creates a sequence of exactly one entry (level 0,
\* null answer, status active); in every reachable state the entry at
\* index i has level i, with levels in 0..4; a successful add_answer for a
\* level L < 4 appends exactly one entry, at index L+1 with level L+1, a
\* null answer and a question built from the answer just recorded; a
\* successful add_answer for level 4 appends nothing.
C37_EntriesIndexedByLevel ==
    /\ [](\A id \in DOMAIN analyses : \A i \in 1..Len(analyses[id].whys) :
            /\ analyses[id].whys[i].level = i - 1
            /\ analyses[id].whys[i].level \in 0..4)
    /\ [][result'.msg = "analysis_started" =>
            \E id \in DOMAIN analyses' \ DOMAIN analyses :
                /\ Len(analyses'[id].whys) = 1
                /\ analyses'[id].whys[1].level = 0
                /\ analyses'[id].whys[1].answer = None
                /\ analyses'[id].status = "active"]_vars
    /\ [][result'.msg = "next_question" =>
            \E id \in DOMAIN analyses :
                LET before == analyses[id].whys
                    after == analyses'[id].whys
                IN /\ Len(after) = Len(before) + 1
                   /\ \E i \in 1..Len(before) :
                        /\ before[i].answer = None
                        /\ after[i].answer # None
                        /\ i - 1 < 4
                        /\ Len(after) = i + 1
                        /\ after[i + 1].level = i
                        /\ after[i + 1].answer = None
                        /\ after[i + 1].question.about = after[i].answer]_vars
    /\ [][result'.msg = "analysis_completed" =>
            \E id \in DOMAIN analyses :
                /\ Len(analyses'[id].whys) = Len(analyses[id].whys)
                /\ analyses[id].whys[5].answer = None
                /\ analyses'[id].whys[5].answer # None]_vars


(* ------------------------ claims: SCAMPER scores ---------------------- *)
\* the declared range of a score: an integer from 0 to 10
DeclaredScore(v) == v.t = "int" /\ v.n \in 0..10

\* C38: in every reachable state each idea's feasibility_score and
\* impact_score are integers in the range 0..10, whatever evaluations were
\* passed to evaluate_ideas.
C38_ScoresWithinDeclaredRange ==
    \A k \in DOMAIN sessions : \A i \in DOMAIN sessions[k].ideas :
        /\ DeclaredScore(sessions[k].ideas[i].feasibility_score)
        /\ DeclaredScore(sessions[k].ideas[i].impact_score)


(* ============================== isolation ============================= *)
\* two identifiers per store, so that an operation on one entity has a
\* neighbour in its own store and entities in the other stores
TwoPlanIds == {"s1", "s2"}
TwoProcessIds == {"p1", "p2"}
\* most entities the isolation model lets the stores hold, over all stores
MaxIsolated == 3

\* the caller notes the store and the entity of the call it made; the
\* entities are created in the order of their identifiers and within one
\* instant, the clock advancing in the calls that follow
Addressed(store, id) == [pc |-> 0, store |-> store, id |-> id]

IsolationCreatePlan ==
    /\ TotalEntities < MaxIsolated
    /\ \E id \in TwoPlanIds, problem \in StepwiseProblems :
          /\ id = "s2" => "s1" \in DOMAIN plans
          /\ create_plan(id, problem, None)
    /\ now' = now
    /\ script' = Idle
IsolationStartProcess ==
    /\ TotalEntities < MaxIsolated
    /\ \E id \in TwoProcessIds :
          /\ id = "p2" => "p1" \in DOMAIN processes
          /\ start_dialectical_process(id, "X", None)
    /\ now' = now
    /\ script' = Idle
IsolationStartAnalysis ==
    /\ TotalEntities < MaxIsolated
    /\ \E id \in ShortTokens \ DOMAIN analyses :
          /\ id = "w2" => "w1" \in DOMAIN analyses
          /\ start_analysis(id, "P", None)
    /\ now' = now
    /\ script' = Idle
IsolationStartSession ==
    /\ TotalEntities < MaxIsolated
    /\ \E id \in SessionIds :
          /\ id = "c2" => "c1" \in SessionKeys
          /\ start_session(id, "X", "S", None)
    /\ now' = now
    /\ script' = Idle

IsolationExecute ==
    \E id \in TwoPlanIds, step_number \in {1} :
        /\ execute_step(id, step_number, "A")
        /\ script' = Addressed("plans", id)
IsolationThesis ==
    \E id \in TwoProcessIds :
        /\ set_thesis(id, "A", <<>>)
        /\ script' = Addressed("processes", id)
IsolationAntithesis ==
    \E id \in TwoProcessIds :
        /\ set_antithesis(id, "B", <<>>)
        /\ script' = Addressed("processes", id)
IsolationSynthesis ==
    \E id \in TwoProcessIds :
        /\ create_synthesis(id, "A", None)
        /\ script' = Addressed("processes", id)
IsolationAnswer ==
    \E id \in ShortTokens, level \in {0} :
        /\ Len(IF id \in DOMAIN analyses THEN analyses[id].whys ELSE <<>>) < 3
        /\ add_answer(id, level, "A")
        /\ script' = Addressed("analyses", id)
IsolationApply ==
    \E id \in SessionIds :
        /\ apply_technique(id, "substitute",
                           [t |-> "list", v |-> <<"A">>], <<>>)
        /\ script' = Addressed("sessions", id)
IsolationEvaluate ==
    \E id \in SessionIds :
        /\ evaluate_ideas(id, <<Evaluation("A", PyInt(7), PyInt(8))>>)
        /\ script' = Addressed("sessions", id)

NextIsolation ==
    \/ IsolationCreatePlan
    \/ IsolationStartProcess
    \/ IsolationStartAnalysis
    \/ IsolationStartSession
    \/ IsolationExecute
    \/ IsolationThesis
    \/ IsolationAntithesis
    \/ IsolationSynthesis
    \/ IsolationAnswer
    \/ IsolationApply
    \/ IsolationEvaluate

SpecIsolation == Init /\ [][NextIsolation]_vars

(* -------------------------- claims: isolation ------------------------- *)
\* the keyed store keeps its keys and every entity but the one under id
OthersKept(store, after, id) ==
    /\ DOMAIN after = DOMAIN store
    /\ \A k \in DOMAIN store \ {id} : after[k] = store[k]

\* C39: execute_step, set_thesis, set_antithesis, create_synthesis,
\* add_answer, apply_technique and evaluate_ideas, called with an id,
\* change only the entity under that id: every other entity of the same
\* store and every entity of every other store is left unchanged.
C39_OnlyAddressedEntityChanges ==
    []["store" \in DOMAIN script' =>
        /\ IF script'.store = "plans"
           THEN OthersKept(plans, plans', script'.id)
           ELSE plans' = plans
        /\ IF script'.store = "processes"
           THEN OthersKept(processes, processes', script'.id)
           ELSE processes' = processes
        /\ IF script'.store = "analyses"
           THEN OthersKept(analyses, analyses', script'.id)
           ELSE analyses' = analyses
        /\ IF script'.store = "sessions"
           THEN /\ Len(sessions') = Len(sessions)
                /\ \A k \in DOMAIN sessions :
                      sessions[k].id # script'.id => sessions'[k] = sessions[k]
           ELSE sessions' = sessions
        /\ UNCHANGED <<thought_history, branches, mece_analyses,
                       claim_analyses, bias_analyses>>]_vars

\* step 1 of plan s1 was executed while plan s2 has it pending and a
\* process holds its thesis
C39_Witness ==
    /\ "store" \in DOMAIN script
    /\ script = Addressed("plans", "s1")
    /\ result.status = "ok"
    /\ DOMAIN plans = {"s1", "s2"}
    /\ plans["s1"].steps[1].status = "completed"
    /\ plans["s2"].steps[1].status = "pending"
    /\ \E id \in DOMAIN processes : processes[id].thesis # NoPosition


(* ============================= concurrency ============================ *)
\* why_analysis.py lines 55-106: the places of add_answer where the
\* coroutine can give the event loop to another task: the body holds no
\* await, so there is none ("checked" would be one between the tests of
\* lines 66-75 and the writes of lines 78-100)
SuspensionPoints == {}

\* lines 66-75: the error the tests of add_answer end with, None when the
\* call goes on to record the answer
add_answerRefusal(id, level) ==
    IF id \notin DOMAIN analyses THEN Err("analysis_not_found")
    ELSE IF level >= Len(analyses[id].whys) THEN Err("no_question")
    ELSE IF PyIndex(level, Len(analyses[id].whys)) = 0
    THEN Raised("IndexError")
    ELSE IF AlreadyAnswered(analyses[id], level)
    THEN Err("already_answered")
    ELSE Ok(None)

\* lines 78-104, entered after a suspension: the writes of add_answer on
\* the store as it is now, without the tests
add_answerWrites(id, level, answer) ==
    /\ PyIndex(level, Len(analyses[id].whys)) # 0
    /\ level < 4 => TotalWhys < MaxWhys
    /\ \E t1 \in Times : \E t2 \in Times :
          /\ now <= t1 /\ t1 <= t2
          /\ level >= 4 => t2 = t1
          /\ analyses' = [analyses EXCEPT
                 ![id] = Answered(analyses[id], level, answer, t1, t2)]
          /\ now' = t2
    /\ result' = Ok(IF level < 4 THEN "next_question" ELSE "analysis_completed")
    /\ UNCHANGED notWhy

\* server.py lines 636-641: a task of the event loop that handles one
\* why_analysis_add_answer request; open tells whether the level named an
\* unanswered question when the request was issued
Task(id, level, answer) ==
    [state |-> "issued", id |-> id, level |-> level, answer |-> answer,
     open |-> add_answerRefusal(id, level) = Ok(None),
     outcome |-> Ok(None)]
Tasks == IF "tasks" \in DOMAIN script THEN script.tasks ELSE <<>>
AllDone == \A t \in DOMAIN Tasks : Tasks[t].state = "done"
\* the levels of the concurrent requests
ConcurrentLevels == {0, 1, 0 - 1}

\* an analysis is started while no request is being handled
ConcurrentStart ==
    /\ AllDone
    /\ \E id \in AnalysisIds \ DOMAIN analyses : start_analysis(id, "P", None)
    /\ UNCHANGED script
\* two requests for one analysis arrive together; A and B are their answers
ConcurrentIssue ==
    /\ AllDone
    /\ \E id \in DOMAIN analyses, l1 \in ConcurrentLevels,
          l2 \in ConcurrentLevels :
          script' = [pc |-> 0,
                     tasks |-> <<Task(id, l1, "A"), Task(id, l2, "B")>>]
    /\ UNCHANGED <<analyses, processes, now, result, plans, thought_history,
                   branches, sessions, mece_analyses, claim_analyses,
                   bias_analyses>>
\* the event loop resumes a task, which runs to its next suspension point
\* or to its end
ConcurrentRun ==
    \E t \in DOMAIN Tasks :
        LET task == Tasks[t]
        IN IF task.state = "issued" /\ "checked" \notin SuspensionPoints
           THEN /\ add_answer(task.id, task.level, task.answer)
                /\ script' = [script EXCEPT !.tasks[t].state = "done",
                                            !.tasks[t].outcome = result']
           ELSE IF task.state = "issued"
           THEN /\ result' = add_answerRefusal(task.id, task.level)
                /\ script' = [script EXCEPT
                      !.tasks[t].state =
                          IF result' = Ok(None) THEN "checked" ELSE "done",
                      !.tasks[t].outcome = result']
                /\ UNCHANGED <<analyses, now, notWhy>>
           ELSE /\ task.state = "checked"
                /\ add_answerWrites(task.id, task.level, task.answer)
                /\ script' = [script EXCEPT !.tasks[t].state = "done",
                                            !.tasks[t].outcome = result']

NextConcurrent ==
    \/ ConcurrentStart
    \/ ConcurrentIssue
    \/ ConcurrentRun

SpecConcurrent == Init /\ [][NextConcurrent]_vars

(* ------------------------- claims: concurrency ------------------------ *)
\* C31: no task is ever suspended inside a tool operation, so the calls
\* take effect one after the other in some order; of two add_answer calls
\* issued together for the same analysis and level, on a question that was
\* unanswered, exactly one records its answer and the other gets the
\* already-answered error.
C31_ConcurrentAnswersSerialized ==
    /\ \A t \in DOMAIN Tasks : Tasks[t].state \in {"issued", "done"}
    /\ (/\ Tasks # <<>>
        /\ AllDone
        /\ Tasks[1].level = Tasks[2].level
        /\ Tasks[1].open)
       => \E winner \in {1, 2} :
             /\ Tasks[winner].outcome.status = "ok"
             /\ Tasks[3 - winner].outcome = Err("already_answered")

====
